---- MODULE Spec2Model ----
(***************************************************************************)
(* Model of delta_trader's backtest engine (backtest/engine.py): the       *)
(* time-stepped simulation BacktestEngine.run with its exit check, the     *)
(* position sizer (risk/position_sizing.py) and the configuration it reads *)
(* (config/settings.py).                                                   *)
(*                                                                         *)
(* Prices are integers 1..MaxPrice.  A percentage (pnl_pct) is kept as an  *)
(* exact integer in units of 1/PriceScale, and money (capital, pnl_inr) in *)
(* units of 1/PriceScale INR, so that (exit - entry) / entry loses         *)
(* nothing.  Timestamps are minutes since midnight of day 0.               *)
(***************************************************************************)
EXTENDS Integers, Sequences, FiniteSets, TLC

(***************************************************************************)
(* Bounds of the model.                                                    *)
(***************************************************************************)
MaxPrice == 3
GridLen == 4

(***************************************************************************)
(* config/settings.py                                                      *)
(***************************************************************************)
CAPITAL_INR == 1000
LEVERAGE == 5
EFFECTIVE_CAPITAL == CAPITAL_INR * LEVERAGE
\* POSITION_SIZE_PCT = POSITION_SIZE_BASE_PCT = 0.4, kept in tenths
POSITION_SIZE_TENTHS == 4
MAX_POSITIONS == 2
MAX_DAILY_TRADES == 8
COOLDOWN_AFTER_ENTRY_CANDLES == 8
COOLDOWN_AFTER_EXIT_CANDLES == 4
COOLDOWN_AFTER_LOSS_CANDLES == 6
MIN_CANDLES_BETWEEN_ANY_TRADE == 2
TRADING_SYMBOLS == <<"BTCUSDT", "ETHUSDT">>

\* engine.py: the literals of the history check and of the time exit
MinHistoryIdx == 55

\* config/settings.py line 226: the minimum bar count of the live scanner
MIN_CANDLES_FOR_ANALYSIS == 55
MaxHoldMinutes == 120

\* the bar interval of the data set (the hold limit, so that a position is
\* checked at the limit and past it) and the time of its first bar (20:00)
MinutesPerDay == 24 * 60
BarMinutes == MaxHoldMinutes
FirstBarMinute == MinutesPerDay - 2 * BarMinutes

Symbols == {TRADING_SYMBOLS[k] : k \in 1..Len(TRADING_SYMBOLS)}
Prices == 1..MaxPrice

RECURSIVE Factorial(_)
Factorial(n) == IF n <= 1 THEN 1 ELSE n * Factorial(n - 1)
\* every price divides PriceScale
PriceScale == Factorial(MaxPrice)

\* Python's None: where an integer is expected, as an exit reason, as a row
None == 0 - 1
NoReason == "None"
NoBar == [high |-> 0, low |-> 0, close |-> 0]
NoTrade == [exit_reason |-> NoReason]

(***************************************************************************)
(* risk/position_sizing.py: calculate_position.  size_units and the        *)
(* percentages are in units of 1/PriceScale; rr_ratio is the fraction      *)
(* num/den, <<0, 1>> standing for the literal 0 of the else branch.        *)
(***************************************************************************)
\* faulty variant: the ratio is taken whenever the risk is not zero
CalculatePositionAnyRisk(setup) ==
    LET position_size_inr == (EFFECTIVE_CAPITAL * POSITION_SIZE_TENTHS) \div 10
        per_unit == PriceScale \div setup.entry
        risk_pct == IF setup.direction = "LONG"
                    THEN (setup.entry - setup.stop) * per_unit
                    ELSE (setup.stop - setup.entry) * per_unit
        reward_pct == IF setup.direction = "LONG"
                      THEN (setup.target - setup.entry) * per_unit
                      ELSE (setup.entry - setup.target) * per_unit
    IN  [size_inr   |-> position_size_inr,
         size_units |-> position_size_inr * per_unit,
         risk_inr   |-> position_size_inr * risk_pct,
         reward_inr |-> position_size_inr * reward_pct,
         rr_ratio   |-> IF risk_pct # 0 THEN <<reward_pct, risk_pct>> ELSE <<0, 1>>]

calculate_position(setup) ==
    LET position_size_inr == (EFFECTIVE_CAPITAL * POSITION_SIZE_TENTHS) \div 10
        per_unit == PriceScale \div setup.entry
        risk_pct == IF setup.direction = "LONG"
                    THEN (setup.entry - setup.stop) * per_unit
                    ELSE (setup.stop - setup.entry) * per_unit
        reward_pct == IF setup.direction = "LONG"
                      THEN (setup.target - setup.entry) * per_unit
                      ELSE (setup.entry - setup.target) * per_unit
    IN  [size_inr   |-> position_size_inr,
         size_units |-> position_size_inr * per_unit,
         risk_inr   |-> position_size_inr * risk_pct,
         reward_inr |-> position_size_inr * reward_pct,
         rr_ratio   |-> IF risk_pct > 0 THEN <<reward_pct, risk_pct>> ELSE <<0, 1>>]

(***************************************************************************)
(* Two faulty variants of the exit decision: the target looked at before   *)
(* the stop, and a forced close that always ends with END.                 *)
(***************************************************************************)
ExitDecisionTargetFirst(position, current_bar, timestamp, force_close) ==
    LET setup == position.setup
        stop_hit == IF setup.direction = "LONG"
                    THEN current_bar.low <= setup.stop
                    ELSE current_bar.high >= setup.stop
        target_hit == IF setup.direction = "LONG"
                      THEN current_bar.high >= setup.target
                      ELSE current_bar.low <= setup.target
        duration == timestamp - position.entry_time
    IN  IF target_hit THEN [reason |-> "TP", price |-> setup.target]
        ELSE IF stop_hit THEN [reason |-> "STOP", price |-> setup.stop]
        ELSE IF duration > MaxHoldMinutes
             THEN [reason |-> "TIME", price |-> current_bar.close]
        ELSE IF force_close THEN [reason |-> "END", price |-> current_bar.close]
        ELSE [reason |-> NoReason, price |-> current_bar.close]

ExitDecisionForcedEnd(position, current_bar, timestamp, force_close) ==
    LET setup == position.setup
        stop_hit == IF setup.direction = "LONG"
                    THEN current_bar.low <= setup.stop
                    ELSE current_bar.high >= setup.stop
        target_hit == IF setup.direction = "LONG"
                      THEN current_bar.high >= setup.target
                      ELSE current_bar.low <= setup.target
        duration == timestamp - position.entry_time
    IN  IF force_close THEN [reason |-> "END", price |-> current_bar.close]
        ELSE IF stop_hit THEN [reason |-> "STOP", price |-> setup.stop]
        ELSE IF target_hit THEN [reason |-> "TP", price |-> setup.target]
        ELSE IF duration > MaxHoldMinutes
             THEN [reason |-> "TIME", price |-> current_bar.close]
        ELSE [reason |-> NoReason, price |-> current_bar.close]

(***************************************************************************)
(* engine.py: BacktestEngine._check_exit, lines 220-251: the exit reason   *)
(* and the exit price, None when the position stays open.                  *)
(***************************************************************************)
ExitDecision(position, current_bar, timestamp, force_close) ==
    LET setup == position.setup
        stop_hit == IF setup.direction = "LONG"
                    THEN current_bar.low <= setup.stop
                    ELSE current_bar.high >= setup.stop
        target_hit == IF setup.direction = "LONG"
                      THEN current_bar.high >= setup.target
                      ELSE current_bar.low <= setup.target
        duration == timestamp - position.entry_time
    IN  IF stop_hit THEN [reason |-> "STOP", price |-> setup.stop]
        ELSE IF target_hit THEN [reason |-> "TP", price |-> setup.target]
        ELSE IF duration > MaxHoldMinutes
             THEN [reason |-> "TIME", price |-> current_bar.close]
        ELSE IF force_close THEN [reason |-> "END", price |-> current_bar.close]
        ELSE [reason |-> NoReason, price |-> current_bar.close]

(***************************************************************************)
(* engine.py: BacktestEngine._check_exit, lines 253-279: the trade record  *)
(* of a closed position.                                                   *)
(***************************************************************************)
check_exit(position, current_bar, timestamp, force_close) ==
    LET d == ExitDecision(position, current_bar, timestamp, force_close)
        setup == position.setup
        entry_price == position.entry_price
        per_unit == PriceScale \div entry_price
        pnl_pct == IF setup.direction = "LONG"
                   THEN (d.price - entry_price) * per_unit
                   ELSE (entry_price - d.price) * per_unit
    IN  IF d.reason # NoReason
        THEN [closed |-> TRUE,
              trade |-> [symbol            |-> setup.symbol,
                         setup_type        |-> setup.type,
                         direction         |-> setup.direction,
                         entry_time        |-> position.entry_time,
                         entry_price       |-> entry_price,
                         exit_time         |-> timestamp,
                         exit_price        |-> d.price,
                         exit_reason       |-> d.reason,
                         position_size_inr |-> position.position.size_inr,
                         pnl_inr           |-> position.position.size_inr * pnl_pct,
                         pnl_pct           |-> pnl_pct]]
        ELSE [closed |-> FALSE, trade |-> NoTrade]

(***************************************************************************)
(* The shipped configuration and the configurations a run is checked       *)
(* under.  A configuration is the part of config/settings.py the engine    *)
(* and the detector read.                                                  *)
(***************************************************************************)
ShippedConfig ==
    [COOLDOWN_ENABLED              |-> TRUE,
     COOLDOWN_AFTER_ENTRY_CANDLES  |-> COOLDOWN_AFTER_ENTRY_CANDLES,
     COOLDOWN_AFTER_EXIT_CANDLES   |-> COOLDOWN_AFTER_EXIT_CANDLES,
     COOLDOWN_AFTER_LOSS_CANDLES   |-> COOLDOWN_AFTER_LOSS_CANDLES,
     MIN_CANDLES_BETWEEN_ANY_TRADE |-> MIN_CANDLES_BETWEEN_ANY_TRADE,
     MAX_POSITIONS                 |-> MAX_POSITIONS,
     MAX_DAILY_TRADES              |-> MAX_DAILY_TRADES,
     volatility_filter             |-> TRUE,
     trend_filter                  |-> TRUE]

(***************************************************************************)
(* The bars of the data set lie on a grid of GridLen timestamps, one every *)
(* BarMinutes; a symbol's index is a subset of the grid, preceded by       *)
(* `older` bars that lie before the grid.                                  *)
(***************************************************************************)
TimeOf(k) == FirstBarMinute + BarMinutes * (k - 1)
Grid == {TimeOf(k) : k \in 1..GridLen}

\* OHLC rows with low <= close <= high over a set of prices
BarsOver(P) ==
    {b \in [high : P, low : P, close : P] : b.low <= b.close /\ b.close <= b.high}

\* the bars of a run lie on three price levels: one for a stop, one for an
\* entry between, one for a target
RunPrices == {1, 2, 3}
Bars == BarsOver(RunPrices)
QuietBar == [high |-> 1, low |-> 1, close |-> 1]

\* timestamp.date()
DateOf(t) == t \div MinutesPerDay

(***************************************************************************)
(* engine.py lines 80-93: all_timestamps, the sorted union of the indexes  *)
(* restricted to [start_date, end_date].                                   *)
(***************************************************************************)
RECURSIVE SortedSeq(_)
SortedSeq(S) ==
    IF S = {} THEN <<>>
    ELSE LET m == CHOOSE x \in S : \A y \in S : x <= y
         IN  <<m>> \o SortedSeq(S \ {m})

ProcessedTimestamps(d, start, end) ==
    LET all == UNION {d[s].index : s \in DOMAIN d}
        from == IF start # None THEN {t \in all : t >= start} ELSE all
        upto == IF end # None THEN {t \in from : t <= end} ELSE from
    IN  SortedSeq(upto)

(***************************************************************************)
(* State.  data, start_date, end_date: the arguments of run(); cfg: the    *)
(* configuration.  eng: the BacktestEngine instance (capital, trades,      *)
(* equity_curve, symbol_cooldowns, last_trade_candle) with the locals of   *)
(* its run() (all_timestamps, i, open_positions, daily_trades,             *)
(* current_date, pc) and final_bar, the latest row of each symbol that a   *)
(* still open position has been checked against.  ref: a second instance,  *)
(* newly constructed for each run, that is given the same arguments and    *)
(* reads the same rows.  runs: the number of run() calls made on eng.      *)
(* call, result: the arguments and the return value of a method that is    *)
(* called on its own (_check_exit, one iteration of the loop).  bot: the    *)
(* live TradingBot instance (daily_trades, current_date) with its          *)
(* PositionManager (positions), its TradeLogger (trades) and the clock.    *)
(***************************************************************************)
VARIABLES data, start_date, end_date, cfg, eng, ref, runs, call, result, bot

vars == <<data, start_date, end_date, cfg, eng, ref, runs, call, result, bot>>

\* no method is called on its own
NoCall == [op |-> "none"]

\* TradingBot.__init__: no position, no trade today, no date seen yet; the
\* clock when the bot is started is that of the first bar
BotConstructed ==
    [positions     |-> <<>>,
     trades        |-> <<>>,
     daily_trades  |-> 0,
     current_date  |-> None,
     now           |-> FirstBarMinute,
     next_id       |-> 1,
     cycles        |-> 0]

\* what a call of the detector does: it raises, or it returns setups
Raised == [raised |-> TRUE, setups |-> <<>>]
Returned(setups) == [raised |-> FALSE, setups |-> setups]

\* BacktestEngine.__init__
(***************************************************************************)
(* engine.py lines 281-320: the report run() returns, as far as the counts *)
(* and the profit factor go.  Sums are in the unit of pnl_inr; the profit  *)
(* factor is the fraction num / den, or infinite.                          *)
(***************************************************************************)
Abs(x) == IF x < 0 THEN 0 - x ELSE x

RECURSIVE SumPnl(_, _)
SumPnl(trades, rows) ==
    IF rows = {} THEN 0
    ELSE LET k == CHOOSE x \in rows : TRUE
         IN  trades[k].pnl_inr + SumPnl(trades, rows \ {k})

Infinite == [inf |-> TRUE, num |-> 0, den |-> 1]

NoReport ==
    [returned |-> FALSE, message |-> FALSE, total_trades |-> 0,
     winning_trades |-> 0, losing_trades |-> 0, profit_factor |-> Infinite]

\* faulty variant: a trade that breaks even is neither a winner nor a loser
GenerateReportStrictLosers(trades) ==
    LET winners == {k \in 1..Len(trades) : trades[k].pnl_pct > 0}
        losers == {k \in 1..Len(trades) : trades[k].pnl_pct < 0}
    IN  IF trades = <<>>
        THEN [NoReport EXCEPT !.returned = TRUE, !.message = TRUE]
        ELSE [returned       |-> TRUE,
              message        |-> FALSE,
              total_trades   |-> Len(trades),
              winning_trades |-> Cardinality(winners),
              losing_trades  |-> Cardinality(losers),
              profit_factor  |->
                  IF Cardinality(losers) > 0 /\ SumPnl(trades, losers) # 0
                  THEN [inf |-> FALSE,
                        num |-> Abs(SumPnl(trades, winners)),
                        den |-> Abs(SumPnl(trades, losers))]
                  ELSE Infinite]

generate_report(trades) ==
    LET winners == {k \in 1..Len(trades) : trades[k].pnl_pct > 0}
        losers == {k \in 1..Len(trades) : trades[k].pnl_pct <= 0}
    IN  IF trades = <<>>
        THEN [NoReport EXCEPT !.returned = TRUE, !.message = TRUE]
        ELSE [returned       |-> TRUE,
              message        |-> FALSE,
              total_trades   |-> Len(trades),
              winning_trades |-> Cardinality(winners),
              losing_trades  |-> Cardinality(losers),
              profit_factor  |->
                  IF Cardinality(losers) > 0 /\ SumPnl(trades, losers) # 0
                  THEN [inf |-> FALSE,
                        num |-> Abs(SumPnl(trades, winners)),
                        den |-> Abs(SumPnl(trades, losers))]
                  ELSE Infinite]

Constructed ==
    [capital           |-> CAPITAL_INR * PriceScale,
     trades            |-> <<>>,
     equity_curve      |-> <<>>,
     symbol_cooldowns  |-> [s \in Symbols |-> None],
     last_trade_candle |-> 0,
     all_timestamps    |-> <<>>,
     i                 |-> 0,
     open_positions    |-> <<>>,
     daily_trades      |-> 0,
     current_date      |-> None,
     final_bar         |-> [s \in Symbols |-> NoBar],
     report            |-> NoReport,
     pc                |-> "idle"]

\* a faulty variant: run() leaves the last-trade marker of the earlier run
RunStartKeepsMarker(st) ==
    [st EXCEPT !.capital = CAPITAL_INR * PriceScale,
               !.trades = <<>>,
               !.equity_curve = <<>>,
               !.symbol_cooldowns = [s \in Symbols |-> None],
               !.all_timestamps = ProcessedTimestamps(data, start_date, end_date),
               !.i = 0,
               !.open_positions = <<>>,
               !.daily_trades = 0,
               !.current_date = None,
               !.final_bar = [s \in Symbols |-> NoBar],
               !.report = NoReport,
               !.pc = "loop"]

\* engine.py lines 74-99: the start of run()
RunStart(st) ==
    [st EXCEPT !.capital = CAPITAL_INR * PriceScale,
               !.trades = <<>>,
               !.equity_curve = <<>>,
               !.symbol_cooldowns = [s \in Symbols |-> None],
               !.last_trade_candle = 0,
               !.all_timestamps = ProcessedTimestamps(data, start_date, end_date),
               !.i = 0,
               !.open_positions = <<>>,
               !.daily_trades = 0,
               !.current_date = None,
               !.final_bar = [s \in Symbols |-> NoBar],
               !.report = NoReport,
               !.pc = "loop"]

OpenSymbols(open_positions) ==
    {open_positions[k].symbol : k \in 1..Len(open_positions)}

PositionOf(open_positions, symbol) ==
    open_positions[CHOOSE k \in 1..Len(open_positions) :
                       open_positions[k].symbol = symbol]

\* a faulty variant: nothing is deleted
WithoutNothing(open_positions, symbol) == open_positions

\* del open_positions[symbol]
Without(open_positions, symbol) ==
    SelectSeq(open_positions, LAMBDA p : p.symbol # symbol)

\* list(open_positions.keys())
KeysOf(open_positions) ==
    [k \in 1..Len(open_positions) |-> open_positions[k].symbol]

\* engine.py lines 126-128
\* a faulty variant: the post-exit cooldown after a loss too
ExitCooldownAlwaysExit(trade) == cfg.COOLDOWN_AFTER_EXIT_CANDLES

ExitCooldownCandles(trade) ==
    IF trade.pnl_pct < 0
    THEN cfg.COOLDOWN_AFTER_LOSS_CANDLES
    ELSE cfg.COOLDOWN_AFTER_EXIT_CANDLES

\* a faulty variant: the trade is recorded and the capital left alone
ApplyCloseNoCredit(st, symbol, trade) ==
    [st EXCEPT !.trades = Append(@, trade),
               !.open_positions = Without(@, symbol),
               !.symbol_cooldowns =
                    IF cfg.COOLDOWN_ENABLED
                    THEN [@ EXCEPT ![symbol] = st.i + ExitCooldownCandles(trade)]
                    ELSE @]

\* a faulty variant: the position stays open after its trade is recorded
ApplyCloseKeepsPosition(st, symbol, trade) ==
    [st EXCEPT !.trades = Append(@, trade),
               !.capital = @ + trade.pnl_inr,
               !.symbol_cooldowns =
                    IF cfg.COOLDOWN_ENABLED
                    THEN [@ EXCEPT ![symbol] = st.i + ExitCooldownCandles(trade)]
                    ELSE @]

\* engine.py lines 119-129: a position closed by the exit check
ApplyClose(st, symbol, trade) ==
    [st EXCEPT !.trades = Append(@, trade),
               !.capital = @ + trade.pnl_inr,
               !.open_positions = Without(@, symbol),
               !.symbol_cooldowns =
                    IF cfg.COOLDOWN_ENABLED
                    THEN [@ EXCEPT ![symbol] = st.i + ExitCooldownCandles(trade)]
                    ELSE @]

\* a faulty variant: the loop's exit check made with force_close
LoopExitCheckForced(position, current_bar, timestamp) ==
    check_exit(position, current_bar, timestamp, TRUE)

\* engine.py line 116: the exit check of the loop, force_close left False
LoopExitCheck(position, current_bar, timestamp) ==
    check_exit(position, current_bar, timestamp, FALSE)

\* engine.py lines 113-129: the exit check of the open positions
RECURSIVE CloseLoop(_, _, _, _)
CloseLoop(st, keys, rows, timestamp) ==
    IF keys = <<>> THEN st
    ELSE LET symbol == Head(keys)
         IN  IF symbol \in DOMAIN data /\ symbol \in DOMAIN rows
             THEN LET pos == PositionOf(st.open_positions, symbol)
                      r == LoopExitCheck(pos, rows[symbol].bar, timestamp)
                  IN  IF r.closed
                      THEN CloseLoop(ApplyClose(st, symbol, r.trade),
                                     Tail(keys), rows, timestamp)
                      ELSE CloseLoop(st, Tail(keys), rows, timestamp)
             ELSE CloseLoop(st, Tail(keys), rows, timestamp)

\* engine.py line 132
\* a faulty variant: the scan guarded by the daily limit only
HasCapacityDailyOnly(st) == st.daily_trades < cfg.MAX_DAILY_TRADES

HasCapacity(st) ==
    /\ Len(st.open_positions) < cfg.MAX_POSITIONS
    /\ st.daily_trades < cfg.MAX_DAILY_TRADES

\* engine.py lines 141-148
\* a faulty variant: no minimum gap between trades
GlobalCooldownNeverBlocks(st) == FALSE

GlobalCooldownBlocks(st) ==
    st.i < st.last_trade_candle + cfg.MIN_CANDLES_BETWEEN_ANY_TRADE

SymbolCooldownBlocks(st, symbol) ==
    /\ st.symbol_cooldowns[symbol] # None
    /\ st.i < st.symbol_cooldowns[symbol]

\* df.index.get_loc(timestamp)
IndexLoc(symbol, timestamp) ==
    data[symbol].older
        + Cardinality({u \in data[symbol].index : u < timestamp})

\* engine.py line 152
TooLittleHistory(idx) == idx < MinHistoryIdx

\* engine.py line 161: max(setups, key=score) returns the first maximum
\* faulty variant: among setups of equal score the last one is taken
BestSetupLastOfTies(setups) ==
    setups[CHOOSE k \in 1..Len(setups) :
              /\ \A j \in 1..Len(setups) : setups[j].score <= setups[k].score
              /\ \A j \in (k + 1)..Len(setups) : setups[j].score < setups[k].score]

BestSetup(setups) ==
    setups[CHOOSE k \in 1..Len(setups) :
              /\ \A j \in 1..Len(setups) : setups[j].score <= setups[k].score
              /\ \A j \in 1..(k - 1) : setups[j].score < setups[k].score]

\* engine.py lines 160-178: the entry
ApplyEntry(st, symbol, setups, timestamp) ==
    LET best_setup == BestSetup(setups)
        position_info == calculate_position(best_setup)
    IN  [st EXCEPT !.open_positions =
                        Append(@, [symbol      |-> symbol,
                                   setup       |-> best_setup,
                                   position    |-> position_info,
                                   entry_time  |-> timestamp,
                                   entry_price |-> best_setup.entry]),
                   !.daily_trades = @ + 1,
                   !.symbol_cooldowns =
                        IF cfg.COOLDOWN_ENABLED
                        THEN [@ EXCEPT ![symbol] =
                                  st.i + cfg.COOLDOWN_AFTER_ENTRY_CANDLES]
                        ELSE @,
                   !.last_trade_candle =
                        IF cfg.COOLDOWN_ENABLED THEN st.i ELSE @]

\* engine.py lines 133-181: the scan of the symbols, in the order of data
RECURSIVE ScanLoop(_, _, _, _)
ScanLoop(st, k, rows, timestamp) ==
    IF k > Len(TRADING_SYMBOLS) THEN st
    ELSE LET symbol == TRADING_SYMBOLS[k]
             next == ScanLoop(st, k + 1, rows, timestamp)
         IN  IF symbol \in OpenSymbols(st.open_positions) THEN next
             ELSE IF symbol \notin DOMAIN rows THEN next
             ELSE IF cfg.COOLDOWN_ENABLED /\ GlobalCooldownBlocks(st) THEN next
             ELSE IF cfg.COOLDOWN_ENABLED /\ SymbolCooldownBlocks(st, symbol)
                  THEN next
             ELSE IF TooLittleHistory(IndexLoc(symbol, timestamp)) THEN next
             ELSE IF rows[symbol].det.raised THEN [st EXCEPT !.pc = "raised"]
             ELSE IF rows[symbol].det.setups = <<>> THEN next
             ELSE LET entered == ApplyEntry(st, symbol, rows[symbol].det.setups,
                                            timestamp)
                  IN  IF Len(entered.open_positions) >= cfg.MAX_POSITIONS
                      THEN entered
                      ELSE ScanLoop(entered, k + 1, rows, timestamp)

\* engine.py lines 108-110
DailyReset(st, timestamp) ==
    IF st.current_date # DateOf(timestamp)
    THEN [st EXCEPT !.current_date = DateOf(timestamp), !.daily_trades = 0]
    ELSE st

\* a faulty variant: an equity point only while a position is open
RecordEquityWhenOpen(st, timestamp) ==
    IF st.open_positions = <<>> THEN st
    ELSE [st EXCEPT !.equity_curve =
             Append(@, [timestamp      |-> timestamp,
                        capital        |-> st.capital,
                        open_positions |-> Len(st.open_positions)])]

\* engine.py lines 184-188
RecordEquity(st, timestamp) ==
    [st EXCEPT !.equity_curve =
        Append(@, [timestamp      |-> timestamp,
                   capital        |-> st.capital,
                   open_positions |-> Len(st.open_positions)])]

\* data[symbol].iloc[-1] is the row at the last timestamp of the index
IsLastRow(symbol, timestamp) ==
    /\ timestamp \in data[symbol].index
    /\ \A u \in data[symbol].index : u <= timestamp

\* the last rows that the forced close reads again
KeepFinalBars(st, rows, timestamp) ==
    [st EXCEPT !.final_bar =
        [s \in Symbols |->
            IF s \notin OpenSymbols(st.open_positions) THEN NoBar
            ELSE IF IsLastRow(s, timestamp) THEN rows[s].bar
            ELSE @[s]]]

(***************************************************************************)
(* engine.py lines 102-188: one iteration of the loop over all_timestamps  *)
(* at timestamp all_timestamps[i], reading rows[s], the row of each symbol *)
(* that has a bar at it with what the detector returns for it.             *)
(***************************************************************************)
\* a faulty variant: the entry scan made before the exit check
StepBodyEntriesFirst(st, rows) ==
    LET timestamp == st.all_timestamps[st.i + 1]
        reset == DailyReset(st, timestamp)
        scanned == IF HasCapacity(reset)
                   THEN ScanLoop(reset, 1, rows, timestamp)
                   ELSE reset
        closed == CloseLoop(scanned, KeysOf(scanned.open_positions), rows,
                            timestamp)
    IN  IF scanned.pc = "raised" THEN scanned
        ELSE [KeepFinalBars(RecordEquity(closed, timestamp), rows, timestamp)
                 EXCEPT !.i = @ + 1]

StepBody(st, rows) ==
    LET timestamp == st.all_timestamps[st.i + 1]
        reset == DailyReset(st, timestamp)
        closed == CloseLoop(reset, KeysOf(reset.open_positions), rows, timestamp)
        scanned == IF HasCapacity(closed)
                   THEN ScanLoop(closed, 1, rows, timestamp)
                   ELSE closed
    IN  IF scanned.pc = "raised" THEN scanned
        ELSE [KeepFinalBars(RecordEquity(scanned, timestamp), rows, timestamp)
                 EXCEPT !.i = @ + 1]

(***************************************************************************)
(* strategy/setups.py: what SetupDetector.detect_all_setups can return to  *)
(* the engine for a series whose last close is `close`.  With the          *)
(* volatility filter on, check_volatility calls atr(df, 14) without its    *)
(* low and close arguments, which raises for every series of 50 bars or    *)
(* more.  Otherwise the evaluators that fire are any of those enabled in   *)
(* ENABLED_SETUPS, in the order of the detectors list, entry being the     *)
(* close and stop and target lying on either side of it; with the trend    *)
(* filter on only the directions of the trend state survive.  Scores are   *)
(* in hundredths (SETUP_BASE_SCORES).                                      *)
(***************************************************************************)
EnabledCandidates ==
    <<[type |-> "EMA_PULLBACK_LONG", direction |-> "LONG",  score |-> 65],
      [type |-> "BREAKOUT_SHORT",    direction |-> "SHORT", score |-> 55],
      [type |-> "RSI_OVERSOLD_LONG", direction |-> "LONG",  score |-> 55]>>

\* config/settings.py TREND_TRADING_RULES, MarketFilters.is_direction_allowed
is_direction_allowed(direction, trend_state) ==
    IF ~cfg.trend_filter THEN TRUE
    ELSE direction \in (CASE trend_state = "uptrend" -> {"LONG"}
                          [] trend_state = "downtrend" -> {"SHORT"}
                          [] OTHER -> {})

TrendStates == {"uptrend", "downtrend", "ranging"}

SetupOf(cand, symbol, close, lo, hi) ==
    [type      |-> cand.type,
     direction |-> cand.direction,
     score     |-> cand.score,
     entry     |-> close,
     stop      |-> IF cand.direction = "LONG" THEN lo ELSE hi,
     target    |-> IF cand.direction = "LONG" THEN hi ELSE lo,
     symbol    |-> symbol]

RECURSIVE SetupsOf(_, _, _, _, _, _, _)
SetupsOf(k, fired, trend_state, symbol, close, lo, hi) ==
    IF k > Len(EnabledCandidates) THEN <<>>
    ELSE LET cand == EnabledCandidates[k]
             rest == SetupsOf(k + 1, fired, trend_state, symbol, close, lo, hi)
         IN  IF k \in fired /\ is_direction_allowed(cand.direction, trend_state)
             THEN <<SetupOf(cand, symbol, close, lo, hi)>> \o rest
             ELSE rest

detect_all_setups(symbol, close) ==
    IF cfg.volatility_filter THEN {Raised}
    ELSE {Returned(<<>>)} \cup
         {Returned(SetupsOf(1, fired, trend_state, symbol, close, lo, hi)) :
             fired \in SUBSET (1..Len(EnabledCandidates)),
             trend_state \in TrendStates,
             lo \in {p \in RunPrices : p < close},
             hi \in {p \in RunPrices : p > close}}

(***************************************************************************)
(* The rows a step can read for a symbol that has a bar at the timestamp:  *)
(* the bar, and what the detector does for the history that ends with it.  *)
(* A row is drawn when the step reaches it.  Only what the step reads is   *)
(* drawn: the detector is called for a symbol only past the cooldown and   *)
(* history checks of the scan, and, for a symbol with a position, only     *)
(* when the bar closes that position; of the bar of a symbol without a     *)
(* position only the close is read, through the setups the detector        *)
(* returns, unless the bar is the last row of the symbol, which the forced *)
(* close reads again.                                                      *)
(***************************************************************************)
FlatBar(close) == [high |-> close, low |-> close, close |-> close]

DetectorCallable(st, symbol, timestamp) ==
    /\ ~TooLittleHistory(IndexLoc(symbol, timestamp))
    /\ ~(cfg.COOLDOWN_ENABLED /\ GlobalCooldownBlocks(st))
    /\ \/ symbol \in OpenSymbols(st.open_positions)
       \/ ~(cfg.COOLDOWN_ENABLED /\ SymbolCooldownBlocks(st, symbol))

RowChoices(st, symbol, timestamp) ==
    LET callable == DetectorCallable(st, symbol, timestamp)
        held == symbol \in OpenSymbols(st.open_positions)
        closes(b) == ExitDecision(PositionOf(st.open_positions, symbol),
                                  b, timestamp, FALSE).reason # NoReason
        dets(b) == IF callable /\ (held => closes(b))
                   THEN detect_all_setups(symbol, b.close)
                   ELSE {Returned(<<>>)}
        all == UNION {{[bar |-> b, det |-> d] : d \in dets(b)} : b \in Bars}
    IN  IF held THEN all
        ELSE {r \in all : /\ r.det \notin {Returned(<<>>), Raised}
                          /\ \/ IsLastRow(symbol, timestamp)
                             \/ r.bar = FlatBar(r.bar.close)}
             \cup {[bar |-> QuietBar, det |-> d] : d \in dets(QuietBar)}

RECURSIVE RowMaps(_, _, _)
RowMaps(st, present, timestamp) ==
    IF present = {} THEN {<<>>}
    ELSE LET s == CHOOSE x \in present : TRUE
         IN  {(s :> r) @@ m : r \in RowChoices(st, s, timestamp),
                              m \in RowMaps(st, present \ {s}, timestamp)}

\* faulty variant: a row is read for every symbol at every timestamp
PresentAlways(timestamp) == Symbols

Present(timestamp) == {s \in Symbols : timestamp \in data[s].index}

(***************************************************************************)
(* engine.py lines 190-200: the forced close of the positions still open,  *)
(* each against data[symbol].iloc[-1].                                     *)
(***************************************************************************)
RECURSIVE ForceClose(_, _, _)
ForceClose(st, items, last_bars) ==
    IF items = <<>> THEN st
    ELSE LET pos == Head(items)
             last_timestamp == st.all_timestamps[Len(st.all_timestamps)]
             r == check_exit(pos, last_bars[pos.symbol], last_timestamp, TRUE)
         IN  ForceClose([st EXCEPT !.trades = Append(@, r.trade),
                                   !.capital = @ + r.trade.pnl_inr],
                        Tail(items), last_bars)

FinishBody(st, last_bars) ==
    LET closed == ForceClose(st, st.open_positions, last_bars)
    IN  [closed
            EXCEPT !.final_bar = [s \in Symbols |->
                                     IF s \in OpenSymbols(st.open_positions)
                                     THEN last_bars[s] ELSE NoBar],
                   !.report = generate_report(closed.trades),
                   !.pc = "done"]

\* data[symbol].iloc[-1]: a row the loop has read, or one after end_date
LastBarChoices(st, symbol) ==
    IF st.all_timestamps # <<>>
       /\ \E u \in data[symbol].index : u > st.all_timestamps[Len(st.all_timestamps)]
    THEN Bars
    ELSE {st.final_bar[symbol]}

(***************************************************************************)
(* Actions.                                                                *)
(***************************************************************************)
\* run(data, start_date, end_date) is called on the constructed engine
Run ==
    /\ eng.pc = "idle"
    /\ eng' = RunStart(eng)
    /\ ref' = RunStart(Constructed)
    /\ runs' = runs + 1
    /\ UNCHANGED <<data, start_date, end_date, cfg, call, result, bot>>

\* one iteration of the loop over all_timestamps
Step ==
    /\ eng.pc = "loop"
    /\ eng.i < Len(eng.all_timestamps)
    /\ LET timestamp == eng.all_timestamps[eng.i + 1]
           \* the rows either instance reads at the timestamp
           read == RowMaps(eng, Present(timestamp), timestamp)
                      \cup IF ref # eng /\ ref.pc = "loop" /\ ref.i = eng.i
                           THEN RowMaps(ref, Present(timestamp), timestamp)
                           ELSE {}
       IN  \E rows \in read :
              /\ eng' = StepBody(eng, rows)
              /\ ref' = IF ref = eng THEN eng'
                        ELSE IF ref.pc = "loop" THEN StepBody(ref, rows)
                        ELSE ref
    /\ UNCHANGED <<data, start_date, end_date, cfg, runs, call, result, bot>>

\* the loop is over: forced close
Finish ==
    /\ eng.pc = "loop"
    /\ eng.i = Len(eng.all_timestamps)
    /\ \E last_bars \in [Symbols -> Bars \cup {NoBar}] :
          /\ \A s \in Symbols :
                last_bars[s] \in IF s \in OpenSymbols(eng.open_positions)
                                 THEN LastBarChoices(eng, s) ELSE {NoBar}
          /\ eng' = FinishBody(eng, last_bars)
          /\ ref' = IF ref = eng THEN eng'
                    ELSE IF ref.pc = "loop" /\ ref.i = Len(ref.all_timestamps)
                         THEN FinishBody(ref, last_bars)
                    ELSE ref
    /\ UNCHANGED <<data, start_date, end_date, cfg, runs, call, result, bot>>

Next == Run \/ Step \/ Finish

(***************************************************************************)
(* The configurations and the data sets of the runs.                       *)
(***************************************************************************)
\* the shipped configuration with the volatility filter off
NoVolatilityFilter == [ShippedConfig EXCEPT !.volatility_filter = FALSE]

\* shorter cooldowns, in the order of the shipped ones (entry > loss > exit)
ShortCooldowns ==
    [NoVolatilityFilter EXCEPT !.COOLDOWN_AFTER_ENTRY_CANDLES = 3,
                               !.COOLDOWN_AFTER_EXIT_CANDLES = 1,
                               !.COOLDOWN_AFTER_LOSS_CANDLES = 2,
                               !.MIN_CANDLES_BETWEEN_ANY_TRADE = 1]

NoGap == [ShortCooldowns EXCEPT !.MIN_CANDLES_BETWEEN_ANY_TRADE = 0]

NoCooldown == [NoVolatilityFilter EXCEPT !.COOLDOWN_ENABLED = FALSE]

OnePosition(c) == [c EXCEPT !.MAX_POSITIONS = 1]

\* a daily limit that a run over the grid can reach
OneTradeADay(c) == [c EXCEPT !.MAX_DAILY_TRADES = 1]

\* every symbol has a bar at every timestamp of the grid and enough history
\* before it
FullData == [s \in Symbols |-> [older |-> MinHistoryIdx, index |-> Grid]]

\* the first symbol lacks the second bar of the grid, the second symbol is
\* one bar short of the history needed at the first
GapData ==
    [s \in Symbols |->
        IF s = TRADING_SYMBOLS[1]
        THEN [older |-> MinHistoryIdx, index |-> Grid \ {TimeOf(2)}]
        ELSE [older |-> MinHistoryIdx - 1, index |-> Grid]]

\* only the first symbol has the history the scan asks for
LoneData ==
    [s \in Symbols |->
        [older |-> IF s = TRADING_SYMBOLS[1] THEN MinHistoryIdx ELSE 0,
         index |-> Grid]]

\* no bars before the grid: any two indexes
ShallowData ==
    {[s \in Symbols |-> [older |-> 0, index |-> ix[s]]] :
        ix \in [Symbols -> SUBSET Grid]}

Scenario(c, d, start, end) ==
    [cfg |-> c, data |-> d, start_date |-> start, end_date |-> end]

RunScenarios ==
    {Scenario(ShortCooldowns, FullData, TimeOf(1), None),
     Scenario(NoCooldown, FullData, TimeOf(1), TimeOf(2)),
     Scenario(OnePosition(NoGap), FullData, TimeOf(1), TimeOf(2)),
     Scenario(NoGap, LoneData, None, None),
     Scenario(NoVolatilityFilter, FullData, TimeOf(1), None),
     Scenario(ShippedConfig, FullData, TimeOf(1), None),
     Scenario(OnePosition(ShortCooldowns), FullData, TimeOf(1), None),
     Scenario(OnePosition(NoCooldown), GapData, TimeOf(1), TimeOf(GridLen - 1)),
     Scenario(ShortCooldowns, GapData, TimeOf(1), TimeOf(GridLen - 1)),
     Scenario(NoGap, GapData, TimeOf(1), TimeOf(3)),
     Scenario(OneTradeADay(NoCooldown), FullData, TimeOf(1), TimeOf(2)),
     Scenario(OneTradeADay(ShortCooldowns), FullData, TimeOf(2), None)}
    \cup {Scenario(ShippedConfig, d, start, end) :
            d \in ShallowData,
            start \in {None, TimeOf(2)},
            end \in {None, TimeOf(GridLen - 1)}}

InitOf(scenarios) ==
    /\ \E sc \in scenarios :
          /\ cfg = sc.cfg
          /\ data = sc.data
          /\ start_date = sc.start_date
          /\ end_date = sc.end_date
    /\ eng = Constructed
    /\ ref = Constructed
    /\ runs = 0
    /\ bot = BotConstructed
    /\ call = NoCall
    /\ result = NoCall

Init == InitOf(RunScenarios)

Spec == Init /\ [][Next]_vars

(***************************************************************************)
(* run() called again on the same instance, with the same arguments, after *)
(* a run that returned or raised.                                          *)
(***************************************************************************)
MaxRuns == 2

Rerun ==
    /\ eng.pc \in {"done", "raised"}
    /\ runs < MaxRuns
    /\ eng' = RunStart(eng)
    /\ ref' = RunStart(Constructed)
    /\ runs' = runs + 1
    /\ UNCHANGED <<data, start_date, end_date, cfg, call, result, bot>>

RerunScenarios ==
    {Scenario(ShortCooldowns, FullData, TimeOf(1), None),
     Scenario(ShippedConfig, FullData, TimeOf(1), None),
     Scenario(OnePosition(NoCooldown), GapData, TimeOf(1), TimeOf(GridLen - 1)),
     Scenario(NoGap, LoneData, None, None)}

NextRerun == Run \/ Step \/ Finish \/ Rerun

SpecRerun == InitOf(RerunScenarios) /\ [][NextRerun]_vars

(***************************************************************************)
(* _check_exit called on its own: on any setup over the prices, entered at *)
(* a timestamp of the grid, against any bar, at the same or a later        *)
(* timestamp, with and without force_close.                                *)
(***************************************************************************)
AnySetups ==
    {[type |-> "EMA_PULLBACK_LONG", direction |-> d, score |-> 65,
      entry |-> e, stop |-> s, target |-> t, symbol |-> TRADING_SYMBOLS[1]] :
        d \in {"LONG", "SHORT"}, e \in Prices, s \in Prices, t \in Prices}

PositionAt(setup, timestamp) ==
    [symbol      |-> setup.symbol,
     setup       |-> setup,
     position    |-> calculate_position(setup),
     entry_time  |-> timestamp,
     entry_price |-> setup.entry]

InitExit ==
    /\ cfg = ShippedConfig
    /\ data = FullData
    /\ start_date = None
    /\ end_date = None
    /\ eng = Constructed
    /\ ref = Constructed
    /\ runs = 0
    /\ bot = BotConstructed
    /\ \E setup \in AnySetups, t0 \in Grid, t1 \in Grid, b \in BarsOver(Prices),
          f \in BOOLEAN :
          /\ t0 <= t1
          /\ call = [op |-> "check_exit", position |-> PositionAt(setup, t0),
                     current_bar |-> b, timestamp |-> t1, force_close |-> f]
    /\ result = NoCall

CheckExit ==
    /\ call.op = "check_exit"
    /\ result = NoCall
    /\ result' = [op |-> "check_exit",
                  ret |-> check_exit(call.position, call.current_bar,
                                     call.timestamp, call.force_close)]
    /\ UNCHANGED <<data, start_date, end_date, cfg, eng, ref, runs, call, bot>>

NextExit == CheckExit

SpecExit == InitExit /\ [][NextExit]_vars

(***************************************************************************)
(* One iteration of the loop on its own: the first step of a run, no       *)
(* position open and no cooldown in force, with a row for every symbol.    *)
(***************************************************************************)
ScanConfigs ==
    {[c EXCEPT !.trend_filter = f] :
        c \in {OnePosition(NoCooldown), OnePosition(NoGap)}, f \in BOOLEAN}

InitScan ==
    /\ cfg \in ScanConfigs
    /\ data = FullData
    /\ start_date = None
    /\ end_date = None
    /\ eng = Constructed
    /\ ref = Constructed
    /\ runs = 0
    /\ bot = BotConstructed
    /\ call = NoCall
    /\ result = NoCall

\* run() is entered and the rows of the first timestamp are read
ScanCall ==
    /\ eng.pc = "idle"
    /\ call = NoCall
    /\ eng' = RunStart(eng)
    /\ \E rows \in RowMaps(RunStart(eng), Present(TimeOf(1)), TimeOf(1)) :
          call' = [op |-> "step", rows |-> rows]
    /\ UNCHANGED <<data, start_date, end_date, cfg, ref, runs, result, bot>>

ScanStep ==
    /\ call.op = "step"
    /\ result = NoCall
    /\ eng.pc = "loop"
    /\ eng' = StepBody(eng, call.rows)
    /\ result' = [op |-> "step", open_positions |-> eng'.open_positions]
    /\ UNCHANGED <<data, start_date, end_date, cfg, ref, runs, call, bot>>

NextScan == ScanCall \/ ScanStep

SpecScan == InitScan /\ [][NextScan]_vars

(***************************************************************************)
(* risk/position_sizing.py: calculate_position on its own, for a setup of  *)
(* either direction with any entry, stop and target, an entry of zero      *)
(* included: the division by setup["entry"] raises ZeroDivisionError.      *)
(***************************************************************************)
SizePrices == 0..MaxPrice

NoPositionInfo ==
    [size_inr |-> 0, size_units |-> 0, risk_inr |-> 0, reward_inr |-> 0,
     rr_ratio |-> <<0, 1>>]

SizeOutcome(setup) ==
    IF setup.entry = 0
    THEN [raised |-> TRUE, position |-> NoPositionInfo]
    ELSE [raised |-> FALSE, position |-> calculate_position(setup)]

InitSize ==
    /\ cfg = ShippedConfig
    /\ data = FullData
    /\ start_date = None
    /\ end_date = None
    /\ eng = Constructed
    /\ ref = Constructed
    /\ runs = 0
    /\ bot = BotConstructed
    /\ \E d \in {"LONG", "SHORT"}, e \in SizePrices, st \in SizePrices,
          t \in SizePrices :
          call = [op |-> "size",
                  setup |-> [direction |-> d, entry |-> e, stop |-> st,
                             target |-> t]]
    /\ result = NoCall

Size ==
    /\ call.op = "size"
    /\ result = NoCall
    /\ result' = [op       |-> "size",
                  raised   |-> SizeOutcome(call.setup).raised,
                  position |-> SizeOutcome(call.setup).position]
    /\ UNCHANGED <<data, start_date, end_date, cfg, eng, ref, runs, call, bot>>

NextSize == Size

SpecSize == InitSize /\ [][NextSize]_vars

(***************************************************************************)
(* strategy/setups.py, strategy/filters.py, utils/indicators.py: one call  *)
(* of SetupDetector.detect_all_setups(df, symbol) in detail.  What is read *)
(* of df: its length n, the trend state determine_trend_from_15m finds in  *)
(* it, the two conditions of the volatility check (atr_ok: the ATR         *)
(* percentile is at least MIN_ATR_PERCENTILE; range_ok: the recent range   *)
(* is at least MIN_CANDLE_RANGE_PCT) and what each of the five evaluators  *)
(* does on it: it returns None, a LONG or a SHORT setup of its type, or it *)
(* raises.  conf is the part of config/settings.py the call reads: the     *)
(* volatility_filter and trend_filter flags of FEATURES, ENABLED_SETUPS    *)
(* (the set of types set to True) and SETUP_BASE_SCORES (in hundredths).   *)
(***************************************************************************)
\* utils/indicators.py: atr(high, low, close, period=14) needs three
\* positional arguments; filters.py line 102 calls atr(df, 14) with two
AtrRequiredArgs == 3
CheckVolatilityAtrArgs == 2
MinVolatilityBars == 50
MinTrendBars == 55
DetectorMinScore == 40

atr_raises(nargs) == nargs < AtrRequiredArgs

\* the detectors list of detect_all_setups, with the minimum length of each
\* evaluator and the types it returns
Evaluators ==
    <<[name |-> "EMA_PULLBACK", min_len |-> 55, long |-> "EMA_PULLBACK_LONG",
       short |-> "EMA_PULLBACK_SHORT", table |-> TRUE],
      [name |-> "BREAKOUT", min_len |-> 21, long |-> "BREAKOUT_LONG",
       short |-> "BREAKOUT_SHORT", table |-> TRUE],
      [name |-> "RSI_EXTREME", min_len |-> 20, long |-> "RSI_OVERSOLD_LONG",
       short |-> "RSI_OVERBOUGHT_SHORT", table |-> TRUE],
      [name |-> "RANGE_BOUNCE", min_len |-> 50, long |-> "RANGE_BOUNCE_LONG",
       short |-> "RANGE_BOUNCE_SHORT", table |-> FALSE],
      [name |-> "MOMENTUM", min_len |-> 5, long |-> "MOMENTUM_LONG",
       short |-> "MOMENTUM_SHORT", table |-> FALSE]>>

SetupTypes ==
    {Evaluators[k].long : k \in 1..Len(Evaluators)}
        \cup {Evaluators[k].short : k \in 1..Len(Evaluators)}

\* config/settings.py lines 124-149
ShippedEnabled == {"EMA_PULLBACK_LONG", "BREAKOUT_SHORT", "RSI_OVERSOLD_LONG"}

ShippedScores ==
    [t \in SetupTypes |->
        CASE t = "EMA_PULLBACK_LONG" -> 65
          [] t = "EMA_PULLBACK_SHORT" -> 50
          [] t = "BREAKOUT_LONG" -> 45
          [] t = "BREAKOUT_SHORT" -> 55
          [] t = "RSI_OVERSOLD_LONG" -> 55
          [] t = "RSI_OVERBOUGHT_SHORT" -> 50
          [] t \in {"RANGE_BOUNCE_LONG", "RANGE_BOUNCE_SHORT"} -> 45
          [] OTHER -> 40]

\* the hard-coded score of the range bounce and momentum evaluators
HardCodedScore == 45

\* the setup an evaluator returns: its score is read from SETUP_BASE_SCORES
\* by the first three evaluators and hard-coded in the last two
CandidateOf(k, direction, conf) ==
    LET type == IF direction = "LONG" THEN Evaluators[k].long
                ELSE Evaluators[k].short
    IN  [type      |-> type,
         direction |-> direction,
         score     |-> IF Evaluators[k].table THEN conf.scores[type]
                       ELSE HardCodedScore]

\* filters.py lines 84-121
check_volatility(c) ==
    IF ~c.conf.volatility_filter THEN [raised |-> FALSE, passed |-> TRUE]
    ELSE IF c.n < MinVolatilityBars THEN [raised |-> FALSE, passed |-> FALSE]
    ELSE IF atr_raises(CheckVolatilityAtrArgs)
         THEN [raised |-> TRUE, passed |-> FALSE]
    ELSE IF ~c.atr_ok THEN [raised |-> FALSE, passed |-> FALSE]
    ELSE IF ~c.range_ok THEN [raised |-> FALSE, passed |-> FALSE]
    ELSE [raised |-> FALSE, passed |-> TRUE]

\* the volatility check as detect_all_setups makes it (setups.py 63-67)
VolatilityNotChecked == [raised |-> FALSE, passed |-> TRUE]

\* filters.py lines 67-82, on the flag and the rules of conf
DirectionAllowed(direction, trend_state, conf) ==
    IF ~conf.trend_filter THEN TRUE
    ELSE direction \in (CASE trend_state = "uptrend" -> {"LONG"}
                          [] trend_state = "downtrend" -> {"SHORT"}
                          [] OTHER -> {})

\* a faulty variant: an error of an evaluator ends the call
EvaluatorErrorFatal(outcome) == outcome = "RAISE"

\* setups.py lines 79, 96-98: try/except around each evaluator
EvaluatorErrorPropagates(outcome) == FALSE

\* a faulty variant: no type is switched off
TypeEnabledAlways(type, conf) == TRUE

\* setups.py line 84: ENABLED_SETUPS.get(setup_type, False)
TypeEnabled(type, conf) == type \in conf.enabled

\* setups.py lines 78-98: the loop over the detectors from the k-th on
RECURSIVE RunDetectors(_, _, _)
RunDetectors(k, c, symbol) ==
    IF k > Len(Evaluators) THEN Returned(<<>>)
    ELSE LET outcome == c.outcomes[k]
             rest == RunDetectors(k + 1, c, symbol)
             cand == CandidateOf(k, outcome, c.conf)
             keep == /\ outcome \in {"LONG", "SHORT"}
                     /\ cand.score >= DetectorMinScore
                     /\ TypeEnabled(cand.type, c.conf)
                     /\ DirectionAllowed(cand.direction, c.trend_state, c.conf)
         IN  IF EvaluatorErrorPropagates(outcome) \/ rest.raised THEN Raised
             ELSE IF keep
                  THEN Returned(<<[type        |-> cand.type,
                                   direction   |-> cand.direction,
                                   score       |-> cand.score,
                                   symbol      |-> symbol,
                                   trend_state |-> c.trend_state]>>
                                \o rest.setups)
             ELSE rest

\* setups.py lines 43-100
DetectCall(c, symbol) ==
    LET vol == IF c.conf.volatility_filter THEN check_volatility(c)
               ELSE VolatilityNotChecked
    IN  [vol |-> vol,
         ret |-> IF vol.raised THEN Raised
                 ELSE IF ~vol.passed THEN Returned(<<>>)
                 ELSE RunDetectors(1, c, symbol)]

(***************************************************************************)
(* detect_all_setups called on its own.  The configurations: each flag on  *)
(* and off, the shipped enable table and one with every type enabled, the  *)
(* shipped scores and scores around the minimum score of the detector.     *)
(* The series: one bar short of the volatility check, just long enough for *)
(* it, and long enough for everything.  Only what the call reads is drawn: *)
(* the trend state of a series too short for it is "ranging", an evaluator *)
(* returns None on a series shorter than its minimum, and the conditions   *)
(* of the volatility check and the evaluators are drawn only where the     *)
(* call can reach them.  At most one evaluator raises.                     *)
(***************************************************************************)
AllEnabled == SetupTypes

LowScores ==
    [ShippedScores EXCEPT !["EMA_PULLBACK_LONG"] = DetectorMinScore - 1,
                          !["BREAKOUT_SHORT"] = DetectorMinScore,
                          !["RSI_OVERBOUGHT_SHORT"] = DetectorMinScore - 5]

DetectorConfigs ==
    [volatility_filter : BOOLEAN,
     trend_filter      : BOOLEAN,
     enabled           : {ShippedEnabled, AllEnabled},
     scores            : {ShippedScores, LowScores}]

SeriesLengths == {MinVolatilityBars - 1, MinVolatilityBars, 2 * MinVolatilityBars}

OutcomesFor(n) ==
    {o \in [1..Len(Evaluators) -> {"NONE", "LONG", "SHORT", "RAISE"}] :
        /\ \A k \in 1..Len(Evaluators) :
              (n < Evaluators[k].min_len) => o[k] = "NONE"
        /\ Cardinality({k \in 1..Len(Evaluators) : o[k] = "RAISE"}) <= 1}

OutcomeSets == [n \in SeriesLengths |-> OutcomesFor(n)]

NoOutcomes == [k \in 1..Len(Evaluators) |-> "NONE"]

\* a call, with nothing drawn that the call does not read
IsDetectorCall(c) ==
    \E conf \in DetectorConfigs, n \in SeriesLengths :
        \E t \in IF n < MinTrendBars THEN {"ranging"} ELSE TrendStates,
           a \in IF conf.volatility_filter /\ n >= MinVolatilityBars
                 THEN BOOLEAN ELSE {TRUE},
           r \in IF conf.volatility_filter /\ n >= MinVolatilityBars
                 THEN BOOLEAN ELSE {TRUE},
           o \in IF conf.volatility_filter THEN {NoOutcomes} ELSE OutcomeSets[n] :
            c = [op |-> "detect", conf |-> conf, n |-> n, trend_state |-> t,
                 atr_ok |-> a, range_ok |-> r, outcomes |-> o]

InitDetect ==
    /\ cfg = ShippedConfig
    /\ data = FullData
    /\ start_date = None
    /\ end_date = None
    /\ eng = Constructed
    /\ ref = Constructed
    /\ runs = 0
    /\ bot = BotConstructed
    /\ IsDetectorCall(call)
    /\ result = NoCall

Detect ==
    /\ call.op = "detect"
    /\ result = NoCall
    /\ result' = [op  |-> "detect",
                  vol |-> DetectCall(call, TRADING_SYMBOLS[1]).vol,
                  ret |-> DetectCall(call, TRADING_SYMBOLS[1]).ret]
    /\ UNCHANGED <<data, start_date, end_date, cfg, eng, ref, runs, call, bot>>

NextDetect == Detect

SpecDetect == InitDetect /\ [][NextDetect]_vars

(***************************************************************************)
(* strategy/setups.py lines 102-425: the five evaluators, each as a        *)
(* function of the indicator readings it takes from the series.  Readings  *)
(* are prices in whole units; the entry, stop and target of a setup are in *)
(* thousandths of a unit, so that the percentages and the ATR multiples of *)
(* the code are exact.  A comparison of two ratios is made by cross        *)
(* multiplication (all readings are positive).                             *)
(***************************************************************************)
STOP_LOSS_ATR_THOUSANDTHS == 1500
TAKE_PROFIT_1_ATR_THOUSANDTHS == 1000

NoSetup == [direction |-> "NONE", entry |-> 0, stop |-> 0, target |-> 0]

Thousandths(price) == 1000 * price

\* `if USE_ATR_BASED_EXITS and atr_value`: an ATR of 0 is falsy
AtrMode(rd, conf) == conf.use_atr /\ rd.atr # 0

LongSetup(rd, conf, pct_stop, pct_target) ==
    [direction |-> "LONG",
     entry     |-> Thousandths(rd.price),
     stop      |-> IF AtrMode(rd, conf)
                   THEN Thousandths(rd.price) - STOP_LOSS_ATR_THOUSANDTHS * rd.atr
                   ELSE pct_stop,
     target    |-> IF AtrMode(rd, conf)
                   THEN Thousandths(rd.price)
                           + TAKE_PROFIT_1_ATR_THOUSANDTHS * rd.atr
                   ELSE pct_target]

ShortSetup(rd, conf, pct_stop, pct_target) ==
    [direction |-> "SHORT",
     entry     |-> Thousandths(rd.price),
     stop      |-> IF AtrMode(rd, conf)
                   THEN Thousandths(rd.price) + STOP_LOSS_ATR_THOUSANDTHS * rd.atr
                   ELSE pct_stop,
     target    |-> IF AtrMode(rd, conf)
                   THEN Thousandths(rd.price)
                           - TAKE_PROFIT_1_ATR_THOUSANDTHS * rd.atr
                   ELSE pct_target]

\* lines 102-205; REQUIRE_ENTRY_CONFIRMATION and FEATURES entry_confirmation
\* are on: distance to the 21 EMA in (-0.1%, 0.5%), RSI in (35, 50) for a
\* long and in (50, 65) for a short
detect_ema_pullback(rd, conf) ==
    LET near == /\ 0 - rd.ema_21 < 1000 * (rd.price - rd.ema_21)
                /\ 1000 * (rd.price - rd.ema_21) < 5 * rd.ema_21
    IN  IF rd.ema_21 > rd.ema_55 /\ near
        THEN IF ~(35 < rd.rsi /\ rd.rsi < 50) THEN NoSetup
             ELSE LongSetup(rd, conf, 995 * rd.ema_55, 1015 * rd.price)
        ELSE IF rd.ema_21 < rd.ema_55 /\ near
        THEN IF ~(50 < rd.rsi /\ rd.rsi < 65) THEN NoSetup
             ELSE ShortSetup(rd, conf, 1005 * rd.ema_55, 985 * rd.price)
        ELSE NoSetup

\* lines 207-271
detect_breakout(rd, conf) ==
    IF rd.price > rd.high_20
    THEN LongSetup(rd, conf, 990 * rd.high_20, 1020 * rd.price)
    ELSE IF rd.price < rd.low_20
    THEN ShortSetup(rd, conf, 1010 * rd.low_20, 980 * rd.price)
    ELSE NoSetup

\* lines 273-337
detect_rsi_extreme(rd, conf) ==
    IF rd.rsi < 30 /\ rd.price > rd.recent_low
    THEN LongSetup(rd, conf, 995 * rd.recent_low, 1012 * rd.price)
    ELSE IF rd.rsi > 70 /\ rd.price < rd.recent_high
    THEN ShortSetup(rd, conf, 1005 * rd.recent_high, 988 * rd.price)
    ELSE NoSetup

\* lines 339-387: no ATR mode; the bands are middle -/+ 2 std
detect_range_bounce(rd, conf) ==
    LET lower_band == rd.middle - rd.two_std
        upper_band == rd.middle + rd.two_std
    IN  IF rd.wider_than_average THEN NoSetup
        ELSE IF 1000 * (rd.price - lower_band) < 5 * lower_band
        THEN [direction |-> "LONG",
              entry     |-> Thousandths(rd.price),
              stop      |-> 990 * lower_band,
              target    |-> Thousandths(rd.middle)]
        ELSE IF 1000 * (upper_band - rd.price) < 5 * upper_band
        THEN [direction |-> "SHORT",
              entry     |-> Thousandths(rd.price),
              stop      |-> 1010 * upper_band,
              target    |-> Thousandths(rd.middle)]
        ELSE NoSetup

\* lines 389-425: no ATR mode
detect_momentum(rd, conf) ==
    IF 100 * (rd.price - rd.close_4) > 2 * rd.close_4
    THEN [direction |-> "LONG",
          entry     |-> Thousandths(rd.price),
          stop      |-> 985 * rd.price,
          target    |-> 1015 * rd.price]
    ELSE IF 100 * (rd.price - rd.close_4) < 0 - 2 * rd.close_4
    THEN [direction |-> "SHORT",
          entry     |-> Thousandths(rd.price),
          stop      |-> 1015 * rd.price,
          target    |-> 985 * rd.price]
    ELSE NoSetup

EvaluatorSetup(k, rd, conf) ==
    CASE k = 1 -> detect_ema_pullback(rd, conf)
      [] k = 2 -> detect_breakout(rd, conf)
      [] k = 3 -> detect_rsi_extreme(rd, conf)
      [] k = 4 -> detect_range_bounce(rd, conf)
      [] OTHER -> detect_momentum(rd, conf)

\* setups.py lines 78-98 for a series on which only the k-th evaluator can
\* return a setup
DetectWith(k, rd, conf, trend_state, symbol) ==
    LET setup == EvaluatorSetup(k, rd, conf)
        cand == CandidateOf(k, setup.direction, conf)
    IN  IF /\ setup # NoSetup
           /\ cand.score >= DetectorMinScore
           /\ TypeEnabled(cand.type, conf)
           /\ DirectionAllowed(cand.direction, trend_state, conf)
        THEN Returned(<<[type        |-> cand.type,
                         direction   |-> cand.direction,
                         score       |-> cand.score,
                         entry       |-> setup.entry,
                         stop        |-> setup.stop,
                         target      |-> setup.target,
                         symbol      |-> symbol,
                         trend_state |-> trend_state]>>)
        ELSE Returned(<<>>)

(***************************************************************************)
(* detect_all_setups called on a series of 55 bars or more on which one    *)
(* evaluator can fire, with the volatility filter off.  The readings lie   *)
(* around a price of 1000; the ATR is 0 (the last bars are flat) or 10.    *)
(* Of the readings of the range bounce, the price lies within 2.1 times    *)
(* the band half-width of the middle band, as the last of the 20 values    *)
(* the bands are computed from does; a half-width of 0 is a flat series.   *)
(***************************************************************************)
Levels == {980, 990, 998, 1000, 1003, 1010, 1030}
AtrReadings == {0, 10}
RsiReadings == {25, 40, 60, 75}
BandHalfWidths == {0, 2, 10}

EvalConfigs ==
    [volatility_filter : {FALSE}, trend_filter : BOOLEAN,
     enabled : {ShippedEnabled, AllEnabled}, scores : {ShippedScores},
     use_atr : BOOLEAN]

ReadingsOf(k) ==
    CASE k = 1 ->
           {[price |-> p, ema_21 |-> e21, ema_55 |-> e55, rsi |-> r, atr |-> a] :
               p \in Levels, e21 \in Levels, e55 \in Levels, r \in RsiReadings,
               a \in AtrReadings}
      [] k = 2 ->
           {rd \in [price : Levels, high_20 : Levels, low_20 : Levels,
                    atr : AtrReadings] : rd.low_20 <= rd.high_20}
      [] k = 3 ->
           {rd \in [price : Levels, rsi : RsiReadings, recent_low : Levels,
                    recent_high : Levels, atr : AtrReadings] :
               rd.recent_low <= rd.price /\ rd.price <= rd.recent_high}
      [] k = 4 ->
           {rd \in [price : Levels, middle : Levels, two_std : BandHalfWidths,
                    wider_than_average : BOOLEAN] :
               /\ 10 * Abs(rd.price - rd.middle) <= 21 * rd.two_std
               /\ (rd.two_std = 0) => ~rd.wider_than_average}
      [] OTHER -> [price : Levels, close_4 : Levels]

InitEval ==
    /\ cfg = ShippedConfig
    /\ data = FullData
    /\ start_date = None
    /\ end_date = None
    /\ eng = Constructed
    /\ ref = Constructed
    /\ runs = 0
    /\ bot = BotConstructed
    /\ \E conf \in EvalConfigs, k \in 1..Len(Evaluators) :
          \E t \in IF conf.trend_filter THEN TrendStates ELSE {"ranging"},
             rd \in ReadingsOf(k) :
              call = [op |-> "evaluate", conf |-> conf, k |-> k,
                      trend_state |-> t, rd |-> rd]
    /\ result = NoCall

Evaluate ==
    /\ call.op = "evaluate"
    /\ result = NoCall
    /\ result' = [op  |-> "evaluate",
                  ret |-> DetectWith(call.k, call.rd, call.conf,
                                     call.trend_state, TRADING_SYMBOLS[1])]
    /\ UNCHANGED <<data, start_date, end_date, cfg, eng, ref, runs, call, bot>>

NextEval == Evaluate

SpecEval == InitEval /\ [][NextEval]_vars

(***************************************************************************)
(* strategy/filters.py: the trend state of a series, by get_trend_state    *)
(* and by determine_trend_from_15m, as a function of the length of the     *)
(* series and of the last values of its fast and slow EMA.  Thresholds are *)
(* in thousandths; the comparison of diff_pct with a threshold is made by  *)
(* cross multiplication (the slow EMA is positive).                        *)
(***************************************************************************)
TREND_THRESHOLD_THOUSANDTHS == 3
RANGING_ZONE_THOUSANDTHS == 3

\* a faulty variant: a difference equal to the threshold is a trend
GetTrendStateInclusive(rd) ==
    LET diff == 1000 * (rd.ema_fast - rd.ema_slow)
    IN  IF rd.n < MinTrendBars THEN "ranging"
        ELSE IF Abs(diff) < rd.ranging_zone * rd.ema_slow THEN "ranging"
        ELSE IF diff >= rd.threshold * rd.ema_slow THEN "uptrend"
        ELSE IF diff <= 0 - rd.threshold * rd.ema_slow THEN "downtrend"
        ELSE "ranging"

\* filters.py lines 37-65
get_trend_state(rd) ==
    LET diff == 1000 * (rd.ema_fast - rd.ema_slow)
    IN  IF rd.n < MinTrendBars THEN "ranging"
        ELSE IF Abs(diff) < rd.ranging_zone * rd.ema_slow THEN "ranging"
        ELSE IF diff > rd.threshold * rd.ema_slow THEN "uptrend"
        ELSE IF diff < 0 - rd.threshold * rd.ema_slow THEN "downtrend"
        ELSE "ranging"

\* filters.py lines 179-206
determine_trend_from_15m(rd) ==
    LET diff == 1000 * (rd.ema_fast - rd.ema_slow)
    IN  IF rd.n < MinTrendBars THEN "ranging"
        ELSE IF Abs(diff) < rd.ranging_zone * rd.ema_slow THEN "ranging"
        ELSE IF diff > rd.threshold * rd.ema_slow THEN "uptrend"
        ELSE IF diff < 0 - rd.threshold * rd.ema_slow THEN "downtrend"
        ELSE "ranging"

(***************************************************************************)
(* The two functions called on the same series: a series one bar short of  *)
(* TREND_EMA_SLOW, one just long enough and a longer one; a slow EMA of    *)
(* 1000 or 2000 and a fast EMA up to 0.6% away from it on either side.     *)
(* The thresholds are the shipped ones (both 0.3%) and a pair with the     *)
(* trend threshold above the ranging zone (0.3% and 0.5%).                 *)
(***************************************************************************)
TrendLengths == {MinTrendBars - 1, MinTrendBars, 2 * MinTrendBars}
SlowReadings == {1000, 2000}
FastOffsets == {0 - 6, 0 - 5, 0 - 4, 0 - 3, 0 - 2, 0, 2, 3, 4, 5, 6}
TrendThresholds ==
    {[ranging_zone |-> RANGING_ZONE_THOUSANDTHS,
      threshold    |-> TREND_THRESHOLD_THOUSANDTHS],
     [ranging_zone |-> RANGING_ZONE_THOUSANDTHS,
      threshold    |-> TREND_THRESHOLD_THOUSANDTHS + 2]}

InitTrend ==
    /\ cfg = ShippedConfig
    /\ data = FullData
    /\ start_date = None
    /\ end_date = None
    /\ eng = Constructed
    /\ ref = Constructed
    /\ runs = 0
    /\ bot = BotConstructed
    /\ \E n \in TrendLengths, slow \in SlowReadings, off \in FastOffsets,
          th \in TrendThresholds :
          call = [op |-> "trend", n |-> n, ema_slow |-> slow,
                  ema_fast |-> slow + off * (slow \div 1000),
                  ranging_zone |-> th.ranging_zone, threshold |-> th.threshold]
    /\ result = NoCall

Trend ==
    /\ call.op = "trend"
    /\ result = NoCall
    /\ result' = [op        |-> "trend",
                  state     |-> get_trend_state(call),
                  state_15m |-> determine_trend_from_15m(call)]
    /\ UNCHANGED <<data, start_date, end_date, cfg, eng, ref, runs, call, bot>>

NextTrend == Trend

SpecTrend == InitTrend /\ [][NextTrend]_vars

(***************************************************************************)
(* The live bot.  One cycle of TradingBot._run_cycle reads the clock, the  *)
(* safety gate, the day's logged pnl, the price of each held symbol, the   *)
(* outcome of each exit order, the scanner's setups and the outcome of the *)
(* entry order; call holds the cycle's inputs, result what it did.         *)
(***************************************************************************)
\* the cycles of one execution of the bot
MaxCycles == 2

\* the time from one cycle to the next: less than MAX_HOLD_MINUTES, or more
BotElapsed == {MaxHoldMinutes - MaxHoldMinutes \div 4,
               MaxHoldMinutes + MaxHoldMinutes \div 4}

\* get_current_price: a price, or 0.0 when the request failed
NoPrice == 0

\* _close_position: the exit order is refused; or it is filled and saving the
\* log raises after the record was appended; or the record is logged
CloseOutcomes == {"order_failed", "save_failed", "closed"}

\* PositionManager: the symbols held, in the order of insertion
get_position_symbols(b) == [k \in 1..Len(b.positions) |-> b.positions[k].symbol]

has_position(b, symbol) ==
    \E k \in 1..Len(b.positions) : b.positions[k].symbol = symbol

get_position(b, symbol) ==
    b.positions[CHOOSE k \in 1..Len(b.positions) : b.positions[k].symbol = symbol]

count(b) == Len(b.positions)

\* add_position: self.positions[symbol] = {...}, one entry per key
add_position(b, symbol, setup, entry_price) ==
    LET pos == [id          |-> b.next_id,
                symbol      |-> symbol,
                setup       |-> setup,
                entry_time  |-> b.now,
                entry_price |-> entry_price]
    IN  [b EXCEPT !.positions =
                      IF has_position(b, symbol)
                      THEN [k \in 1..Len(b.positions) |->
                               IF b.positions[k].symbol = symbol
                               THEN pos ELSE b.positions[k]]
                      ELSE Append(b.positions, pos),
                  !.next_id = b.next_id + 1]

\* remove_position: self.positions.pop(symbol, None)
remove_position(b, symbol) ==
    [b EXCEPT !.positions =
        SelectSeq(b.positions, LAMBDA pos : pos.symbol # symbol)]

\* TradeManager.should_exit: the target is looked at before the stop
should_exit(pos_data, current_price, now) ==
    LET setup == pos_data.setup
    IN  IF setup.direction = "LONG" /\ current_price >= setup.target THEN "TP"
        ELSE IF setup.direction = "LONG" /\ current_price <= setup.stop THEN "STOP"
        ELSE IF setup.direction # "LONG" /\ current_price <= setup.target THEN "TP"
        ELSE IF setup.direction # "LONG" /\ current_price >= setup.stop THEN "STOP"
        ELSE IF now - pos_data.entry_time > MaxHoldMinutes THEN "TIME"
        ELSE "HOLD"

\* TradeManager.create_trade_record
create_trade_record(pos_data, exit_price, exit_reason, now) ==
    [id          |-> pos_data.id,
     symbol      |-> pos_data.symbol,
     direction   |-> pos_data.setup.direction,
     entry_time  |-> pos_data.entry_time,
     entry_price |-> pos_data.entry_price,
     exit_time   |-> now,
     exit_price  |-> exit_price,
     exit_reason |-> exit_reason]

\* _close_position
close_position(b, symbol, exit_price, exit_reason, outcome) ==
    IF ~has_position(b, symbol) THEN b
    ELSE IF outcome = "order_failed" THEN b
    ELSE LET logged == [b EXCEPT !.trades =
                           Append(b.trades,
                                  create_trade_record(get_position(b, symbol),
                                                      exit_price, exit_reason,
                                                      b.now))]
         IN  IF outcome = "save_failed" THEN logged
             ELSE remove_position(logged, symbol)

\* _manage_positions: for symbol in list(get_position_symbols()), from the k-th
RECURSIVE manage_positions(_, _, _, _)
manage_positions(b, symbols, k, inp) ==
    IF k > Len(symbols) THEN b
    ELSE LET symbol == symbols[k]
             current_price == inp.prices[symbol]
             exit_reason == should_exit(get_position(b, symbol), current_price,
                                        b.now)
         IN  IF current_price = NoPrice \/ exit_reason = "HOLD"
             THEN manage_positions(b, symbols, k + 1, inp)
             ELSE manage_positions(
                      close_position(b, symbol, current_price, exit_reason,
                                     inp.closes[symbol]),
                      symbols, k + 1, inp)

\* _take_trade: the position is recorded when the entry order went through
take_trade(b, setup, inp) ==
    IF inp.entered
    THEN [add_position(b, setup.symbol, setup, setup.entry)
             EXCEPT !.daily_trades = b.daily_trades + 1]
    ELSE b

\* _scan_and_trade without the break after the first trade
RECURSIVE ScanAndTradeEverySetup(_, _, _)
ScanAndTradeEverySetup(b, k, inp) ==
    IF k > Len(inp.setups) THEN b
    ELSE IF has_position(b, inp.setups[k].symbol)
         THEN ScanAndTradeEverySetup(b, k + 1, inp)
    ELSE IF count(b) >= cfg.MAX_POSITIONS THEN b
    ELSE ScanAndTradeEverySetup(take_trade(b, inp.setups[k], inp), k + 1, inp)

\* _scan_and_trade: the setups from the k-th, one trade per cycle
RECURSIVE scan_and_trade(_, _, _)
scan_and_trade(b, k, inp) ==
    IF k > Len(inp.setups) THEN b
    ELSE IF has_position(b, inp.setups[k].symbol)
         THEN scan_and_trade(b, k + 1, inp)
    ELSE IF count(b) >= cfg.MAX_POSITIONS THEN b
    ELSE take_trade(b, inp.setups[k], inp)

\* the daily reset at the head of _run_cycle
daily_reset(b, now) ==
    IF b.current_date # DateOf(now)
    THEN [b EXCEPT !.now = now, !.current_date = DateOf(now), !.daily_trades = 0]
    ELSE [b EXCEPT !.now = now]

\* the three returns of _run_cycle that come before anything else is done
CycleBlocked(b, inp) ==
    \/ ~inp.allowed
    \/ b.daily_trades >= cfg.MAX_DAILY_TRADES
    \/ inp.loss_hit

\* _run_cycle
run_cycle(b, inp) ==
    LET today == daily_reset(b, inp.now)
    IN  IF CycleBlocked(today, inp) THEN today
        ELSE LET managed == manage_positions(today, get_position_symbols(today),
                                             1, inp)
             IN  IF count(managed) < cfg.MAX_POSITIONS
                 THEN scan_and_trade(managed, 1, inp)
                 ELSE managed

\* what the scanner can return: setups sorted by score, best first
BotSetup(symbol, score) ==
    LET direction == IF symbol = TRADING_SYMBOLS[1] THEN "LONG" ELSE "SHORT"
    IN  [type      |-> "EMA_PULLBACK",
         direction |-> direction,
         score     |-> score,
         entry     |-> 2,
         stop      |-> IF direction = "LONG" THEN 1 ELSE 3,
         target    |-> IF direction = "LONG" THEN 3 ELSE 1,
         symbol    |-> symbol]

BotSetupLists ==
    {<<>>}
    \cup {<<BotSetup(s, 70)>> : s \in Symbols}
    \cup {<<BotSetup(st[1], 70), BotSetup(st[2], 65)>> :
             st \in {p \in Symbols \X Symbols : p[1] # p[2]}}

\* the market during a cycle: the price of each held symbol (or no answer),
\* and what the exchange does with an exit order for it
BotPrices(b) ==
    {p \in [Symbols -> RunPrices \cup {NoPrice}] :
        \A s \in Symbols : ~has_position(b, s) => p[s] = NoPrice}

BotCloses(b, prices, blocked) ==
    {c \in [Symbols -> CloseOutcomes] :
        \A s \in Symbols :
            (\/ blocked
             \/ prices[s] = NoPrice
             \/ should_exit(get_position(b, s), prices[s], b.now) = "HOLD")
                => c[s] = "closed"}

\* a setup of the list is for a symbol that is not held
TradeAttempted(b, setups) ==
    /\ count(b) < cfg.MAX_POSITIONS
    /\ \E k \in 1..Len(setups) : ~has_position(b, setups[k].symbol)

\* what a cycle did, from the bot before and after it
CycleResult(before, after, inp) ==
    [op      |-> "cycle",
     held    |-> before.positions,
     closed  |-> {before.positions[k].id : k \in 1..Len(before.positions)}
                    \ {after.positions[k].id : k \in 1..Len(after.positions)},
     opened  |-> {after.positions[k].id : k \in 1..Len(after.positions)}
                    \ {before.positions[k].id : k \in 1..Len(before.positions)},
     logged  |-> Len(after.trades) - Len(before.trades)]

InitBot ==
    /\ cfg \in {ShippedConfig, OneTradeADay(ShippedConfig),
               OnePosition(ShippedConfig)}
    /\ data = FullData
    /\ start_date = None
    /\ end_date = None
    /\ eng = Constructed
    /\ ref = Constructed
    /\ runs = 0
    /\ bot = BotConstructed
    /\ call = NoCall
    /\ result = NoCall

\* one execution of _run_cycle
Cycle ==
    /\ bot.cycles < MaxCycles
    /\ \E elapsed \in BotElapsed, allowed \in BOOLEAN :
          LET now == bot.now + elapsed
              today == daily_reset(bot, now)
              capped == today.daily_trades >= cfg.MAX_DAILY_TRADES
          IN  \E loss_hit \in (IF allowed /\ ~capped THEN BOOLEAN ELSE {FALSE}) :
                 LET blocked == ~allowed \/ capped \/ loss_hit
                 IN  \E prices \in BotPrices(today) :
                     \E closes \in BotCloses(today, prices, blocked) :
                        LET part == [now |-> now, allowed |-> allowed,
                                     loss_hit |-> loss_hit, prices |-> prices,
                                     closes |-> closes]
                            managed == IF blocked THEN today
                                       ELSE manage_positions(
                                                today,
                                                get_position_symbols(today),
                                                1, part)
                        IN  \E setups \in (IF ~blocked
                                              /\ count(managed) < cfg.MAX_POSITIONS
                                           THEN BotSetupLists ELSE {<<>>}) :
                            \E entered \in (IF TradeAttempted(managed, setups)
                                            THEN BOOLEAN ELSE {FALSE}) :
                               LET inp == [op |-> "cycle", now |-> now,
                                           allowed |-> allowed,
                                           loss_hit |-> loss_hit,
                                           prices |-> prices, closes |-> closes,
                                           setups |-> setups,
                                           entered |-> entered]
                                   after == run_cycle(bot, inp)
                               IN  /\ bot' = [after EXCEPT
                                                 !.cycles = bot.cycles + 1]
                                   /\ call' = inp
                                   /\ result' = CycleResult(bot, after, inp)
    /\ UNCHANGED <<data, start_date, end_date, cfg, eng, ref, runs>>

NextBot == Cycle

SpecBot == InitBot /\ [][NextBot]_vars

(***************************************************************************)
(* What a run has done, read off the state of the engine.                  *)
(***************************************************************************)
\* the step index of a processed timestamp
StepIndex(st, timestamp) ==
    (CHOOSE k \in 1..Len(st.all_timestamps) : st.all_timestamps[k] = timestamp) - 1

\* the trades closed inside the loop: those of positions no longer open
LoopTrades(st) ==
    {k \in 1..Len(st.trades) :
        ~\E n \in 1..Len(st.open_positions) :
            /\ st.open_positions[n].symbol = st.trades[k].symbol
            /\ st.open_positions[n].entry_time = st.trades[k].entry_time}

\* the trades of the forced close
ForcedTrades(st) == (1..Len(st.trades)) \ LoopTrades(st)

\* every entry made so far: symbol and step
Entries(st) ==
    {[symbol |-> st.trades[k].symbol,
      step   |-> StepIndex(st, st.trades[k].entry_time)] : k \in 1..Len(st.trades)}
    \cup
    {[symbol |-> st.open_positions[n].symbol,
      step   |-> StepIndex(st, st.open_positions[n].entry_time)] :
        n \in 1..Len(st.open_positions)}

Running == eng.pc \in {"loop", "done"}

(***************************************************************************)
(* C1: at every step boundary, and in every equity snapshot, the number of *)
(* open positions is at most MAX_POSITIONS, under every configuration.     *)
(***************************************************************************)
C1_PositionCap ==
    /\ Len(eng.open_positions) <= cfg.MAX_POSITIONS
    /\ \A k \in 1..Len(eng.equity_curve) :
          eng.equity_curve[k].open_positions <= cfg.MAX_POSITIONS

\* the cap is reached with cooldowns off, one step after an entry
C1_Witness ==
    /\ ~cfg.COOLDOWN_ENABLED
    /\ cfg.MAX_POSITIONS = 1
    /\ Len(eng.equity_curve) >= 2
    /\ \A k \in 1..Len(eng.equity_curve) :
          eng.equity_curve[k].open_positions = cfg.MAX_POSITIONS

(***************************************************************************)
(* C2: with cooldown enabled, two entries of a run, on the same or on      *)
(* different symbols, are at least MIN_CANDLES_BETWEEN_ANY_TRADE steps     *)
(* apart, so no two positions are opened in the same step.                 *)
(***************************************************************************)
C2_GlobalCooldown ==
    (cfg.COOLDOWN_ENABLED /\ Running) =>
        \A e1, e2 \in Entries(eng) :
            (e1 # e2 /\ e1.step <= e2.step) =>
                e2.step - e1.step >= cfg.MIN_CANDLES_BETWEEN_ANY_TRADE

\* two symbols entered exactly the minimum gap apart
C2_Witness ==
    /\ cfg.COOLDOWN_ENABLED
    /\ cfg.MIN_CANDLES_BETWEEN_ANY_TRADE >= 1
    /\ Running
    /\ \E e1, e2 \in Entries(eng) :
          /\ e1.symbol # e2.symbol
          /\ e2.step - e1.step = cfg.MIN_CANDLES_BETWEEN_ANY_TRADE

(***************************************************************************)
(* C3: with cooldown enabled, a position on s closed inside the loop at    *)
(* step j leaves the cooldown marker of s at j + COOLDOWN_AFTER_LOSS_      *)
(* CANDLES when the P&L is negative and at j + COOLDOWN_AFTER_EXIT_CANDLES *)
(* otherwise, and no position on s is opened from j on before the marker.  *)
(***************************************************************************)
C3_CooldownOf(trade) ==
    IF trade.pnl_pct < 0
    THEN cfg.COOLDOWN_AFTER_LOSS_CANDLES
    ELSE cfg.COOLDOWN_AFTER_EXIT_CANDLES

C3_ExitCooldown ==
    (cfg.COOLDOWN_ENABLED /\ Running) =>
        \A k \in LoopTrades(eng) :
            LET trade == eng.trades[k]
                j == StepIndex(eng, trade.exit_time)
                marker == j + C3_CooldownOf(trade)
                later == {e \in Entries(eng) :
                             e.symbol = trade.symbol /\ e.step >= j}
            IN  /\ \A e \in later : e.step >= marker
                /\ (later = {} /\ \A n \in LoopTrades(eng) :
                                     (n > k) => eng.trades[n].symbol # trade.symbol)
                       => eng.symbol_cooldowns[trade.symbol] = marker

\* a losing trade, its marker at the loss cooldown, and the symbol entered
\* again exactly at the marker
C3_Witness ==
    /\ cfg.COOLDOWN_ENABLED
    /\ cfg.COOLDOWN_AFTER_LOSS_CANDLES > cfg.COOLDOWN_AFTER_EXIT_CANDLES
    /\ Running
    /\ \E k \in LoopTrades(eng) :
          /\ eng.trades[k].pnl_pct < 0
          /\ \E e \in Entries(eng) :
                /\ e.symbol = eng.trades[k].symbol
                /\ e.step = StepIndex(eng, eng.trades[k].exit_time)
                               + cfg.COOLDOWN_AFTER_LOSS_CANDLES

(***************************************************************************)
(* C4: with cooldown enabled, two successive entries on one symbol are at  *)
(* least COOLDOWN_AFTER_ENTRY_CANDLES steps apart, however the first       *)
(* position was closed.                                                    *)
(***************************************************************************)
C4_EntryCooldown ==
    (cfg.COOLDOWN_ENABLED /\ Running) =>
        \A e1, e2 \in Entries(eng) :
            (e1.symbol = e2.symbol /\ e1.step < e2.step) =>
                e2.step - e1.step >= cfg.COOLDOWN_AFTER_ENTRY_CANDLES

(***************************************************************************)
(* C5: the exit check follows a fixed precedence.  If the stop condition   *)
(* holds (LONG: low <= stop; SHORT: high >= stop) the trade closes as STOP *)
(* at the stop price, even if the target condition holds too; otherwise,   *)
(* if the target condition holds (LONG: high >= target; SHORT: low <=      *)
(* target), as TP at the target price; otherwise, if the position has been *)
(* held for more than 120 minutes, as TIME at the close of the bar;        *)
(* otherwise the position stays open (the check not being a forced close). *)
(***************************************************************************)
C5_StopHit(position, bar) ==
    IF position.setup.direction = "LONG"
    THEN bar.low <= position.setup.stop
    ELSE bar.high >= position.setup.stop

C5_TargetHit(position, bar) ==
    IF position.setup.direction = "LONG"
    THEN bar.high >= position.setup.target
    ELSE bar.low <= position.setup.target

C5_ClosedAs(ret, reason, price) ==
    /\ ret.closed
    /\ ret.trade.exit_reason = reason
    /\ ret.trade.exit_price = price

C6_ExitReasons ==
    Running =>
        \A k \in 1..Len(eng.trades) :
            /\ eng.trades[k].exit_reason \in {"TP", "STOP", "TIME", "END"}
            /\ (k \in LoopTrades(eng)) => eng.trades[k].exit_reason # "END"
            /\ (eng.trades[k].exit_reason = "END") =>
                  /\ eng.pc = "done"
                  /\ k \in ForcedTrades(eng)
                  /\ eng.trades[k].exit_time =
                        eng.all_timestamps[Len(eng.all_timestamps)]

\* a finished run with a trade of the loop closed on time and a trade of
\* the forced close ended with END
C6_Witness ==
    /\ eng.pc = "done"
    /\ \E k \in LoopTrades(eng) : eng.trades[k].exit_reason = "TIME"
    /\ \E k \in ForcedTrades(eng) : eng.trades[k].exit_reason = "END"

(***************************************************************************)
(* C7.  The forced close after the loop checks every position still open   *)
(* against the last row of its symbol at the last processed timestamp.     *)
(***************************************************************************)
\* the trade the forced close made of a position still open at the end
C7_TradeOf(position) ==
    eng.trades[CHOOSE k \in ForcedTrades(eng) :
                  eng.trades[k].symbol = position.symbol]

C7_Forced ==
    {eng.open_positions[n] : n \in 1..Len(eng.open_positions)}

\* C7 as stated: every trade of the forced close has exit_reason END and is
\* priced at the close of the last bar of its symbol, whatever the high and
\* low of that bar and whatever the holding duration.
C7_ForcedCloseAlwaysEnd ==
    (eng.pc = "done") =>
        \A position \in C7_Forced :
            /\ C7_TradeOf(position).exit_reason = "END"
            /\ C7_TradeOf(position).exit_price = eng.final_bar[position.symbol].close

\* C7 as the code has it: every position still open after the loop is
\* closed by the forced close, at the last processed timestamp, by the
\* precedence of the exit check on the last bar of its symbol: STOP at the
\* stop price, else TP at the target price, else TIME at the close when held
\* for more than 120 minutes, and END at the close only when none of these
\* applies.
C7_ForcedCloseFallsBackToEnd ==
    (eng.pc = "done") =>
        /\ Cardinality(ForcedTrades(eng)) = Len(eng.open_positions)
        /\ \A position \in C7_Forced :
              LET bar == eng.final_bar[position.symbol]
                  last == eng.all_timestamps[Len(eng.all_timestamps)]
                  trade == C7_TradeOf(position)
                  stop == C5_StopHit(position, bar)
                  target == C5_TargetHit(position, bar)
                  late == last - position.entry_time > 120
                  is(reason, price) == /\ trade.exit_reason = reason
                                       /\ trade.exit_price = price
              IN  /\ trade.exit_time = last
                  /\ stop => is("STOP", position.setup.stop)
                  /\ (~stop /\ target) => is("TP", position.setup.target)
                  /\ (~stop /\ ~target /\ late) => is("TIME", bar.close)
                  /\ (~stop /\ ~target /\ ~late) => is("END", bar.close)

\* a finished run whose forced close made a STOP of one position and an END
\* of another
C7_Witness ==
    /\ eng.pc = "done"
    /\ \E p1, p2 \in C7_Forced :
          /\ C7_TradeOf(p1).exit_reason = "STOP"
          /\ C7_TradeOf(p2).exit_reason = "END"

(***************************************************************************)
(* C8: a completed run has one equity point per processed timestamp, in    *)
(* ascending order, none repeated and none skipped, whether or not an      *)
(* entry or an exit happened at the step; the processed timestamps are the *)
(* union of the timestamps of all symbols within [start_date, end_date].   *)
(***************************************************************************)
C8_InRange ==
    {t \in UNION {data[s].index : s \in Symbols} :
        /\ (start_date # None) => t >= start_date
        /\ (end_date # None) => t <= end_date}

C8_EquityPoints ==
    /\ (eng.pc = "loop") => Len(eng.equity_curve) = eng.i
    /\ (eng.pc = "done") =>
          /\ Len(eng.equity_curve) = Cardinality(C8_InRange)
          /\ {eng.equity_curve[k].timestamp : k \in 1..Len(eng.equity_curve)}
                = C8_InRange
          /\ \A k \in 1..(Len(eng.equity_curve) - 1) :
                eng.equity_curve[k].timestamp < eng.equity_curve[k + 1].timestamp

\* a completed run without any entry, over a range that leaves out
\* timestamps of the data at both ends, on indexes that differ
C8_Witness ==
    /\ eng.pc = "done"
    /\ eng.trades = <<>>
    /\ Len(eng.equity_curve) >= 2
    /\ start_date # None
    /\ end_date # None
    /\ \E s1, s2 \in Symbols : data[s1].index # data[s2].index
    /\ \E t \in UNION {data[s].index : s \in Symbols} : t < start_date
    /\ \E t \in UNION {data[s].index : s \in Symbols} : t > end_date

(***************************************************************************)
(* C9: a run made on an instance that has run before, on the same          *)
(* arguments and rows, yields the trades, the equity curve and the capital *)
(* of a run on a newly constructed instance.                               *)
(***************************************************************************)
C9_RerunSame ==
    /\ eng.trades = ref.trades
    /\ eng.equity_curve = ref.equity_curve
    /\ eng.capital = ref.capital
    /\ eng.pc = ref.pc

\* a second run on the same instance that has finished with trades
C9_Witness ==
    /\ runs = 2
    /\ eng.pc = "done"
    /\ Len(eng.trades) >= 2
    /\ cfg.COOLDOWN_ENABLED

(***************************************************************************)
(* C10: when two symbols both produce a qualifying setup at the same step, *)
(* with MAX_POSITIONS = 1, no position open and no cooldown in force, the  *)
(* position opened is that of the higher-scored setup, and it is the only  *)
(* one opened.                                                             *)
(***************************************************************************)
C10_Best(symbol) == BestSetup(call.rows[symbol].det.setups)

C10_BothQualify ==
    /\ result.op = "step"
    /\ cfg.MAX_POSITIONS = 1
    /\ \A s \in Symbols : call.rows[s].det.setups # <<>>

C10_HigherScoredOpened ==
    C10_BothQualify =>
        /\ Len(result.open_positions) = 1
        /\ \A s \in Symbols :
              C10_Best(s).score <= result.open_positions[1].setup.score

(***************************************************************************)
(* C11: under the shipped configuration (volatility filter, trend filter   *)
(* and cooldown enabled) no error raised while scanning a symbol at a step *)
(* aborts the run: the loop is never left by an exception.                 *)
(***************************************************************************)
C11_ShippedRunNeverAborts ==
    (cfg = ShippedConfig) => eng.pc # "raised"

(***************************************************************************)
(* C12: with the volatility filter enabled, for a series of at least 50    *)
(* bars check_volatility returns without raising, with passed = False      *)
(* whenever the ATR-percentile condition or the recent-range condition     *)
(* fails, and detect_all_setups then returns an empty list.                *)
(***************************************************************************)
C12_VolatilityCheckReturns ==
    (/\ result.op = "detect"
     /\ call.conf.volatility_filter
     /\ call.n >= 50) =>
        /\ ~result.vol.raised
        /\ ~result.ret.raised
        /\ (~call.atr_ok \/ ~call.range_ok) =>
              /\ ~result.vol.passed
              /\ result.ret.setups = <<>>

(***************************************************************************)
(* C15: given that the volatility check passes, detect_all_setups returns  *)
(* exactly, in the order of the evaluators, the candidates of the five     *)
(* evaluators with a score of at least the minimum score of the detector   *)
(* (0.4), a type enabled in ENABLED_SETUPS and, with the trend filter on,  *)
(* a direction that TREND_TRADING_RULES lists for the trend state: nothing *)
(* in a ranging state, LONG in an uptrend, SHORT in a downtrend.           *)
(***************************************************************************)
C15_Admissible(direction) ==
    \/ ~call.conf.trend_filter
    \/ call.trend_state = "uptrend" /\ direction = "LONG"
    \/ call.trend_state = "downtrend" /\ direction = "SHORT"

RECURSIVE C15_Passing(_)
C15_Passing(k) ==
    IF k > 5 THEN <<>>
    ELSE LET cand == CandidateOf(k, call.outcomes[k], call.conf)
         IN  IF /\ call.outcomes[k] \in {"LONG", "SHORT"}
                /\ cand.score >= 40
                /\ cand.type \in call.conf.enabled
                /\ C15_Admissible(cand.direction)
             THEN <<cand>> \o C15_Passing(k + 1)
             ELSE C15_Passing(k + 1)

C15_Returned ==
    [k \in 1..Len(result.ret.setups) |->
        [type      |-> result.ret.setups[k].type,
         direction |-> result.ret.setups[k].direction,
         score     |-> result.ret.setups[k].score]]

C15_NoneRaises == \A k \in 1..5 : call.outcomes[k] # "RAISE"

C16_EvaluatorErrorSwallowed ==
    (/\ result.op = "detect"
     /\ ~result.vol.raised
     /\ result.vol.passed
     /\ ~C15_NoneRaises) =>
        /\ ~result.ret.raised
        /\ C15_Returned = C15_Passing(1)

\* the second evaluator raises; the setups of the first and of the third
\* are returned
C16_Witness ==
    /\ result.op = "detect"
    /\ call.outcomes[2] = "RAISE"
    /\ Len(result.ret.setups) = 2
    /\ result.ret.setups[1].type = "EMA_PULLBACK_LONG"
    /\ result.ret.setups[2].type = "RSI_OVERSOLD_LONG"

(***************************************************************************)
(* C14: when the detector returns several setups for a symbol, the engine  *)
(* opens the position on the setup of the highest score; among setups of   *)
(* equal highest score it takes the first in the order of the evaluators.  *)
(***************************************************************************)
C14_FirstOfHighest(setups, setup) ==
    \E k \in 1..Len(setups) :
        /\ setups[k] = setup
        /\ \A j \in 1..Len(setups) : setups[j].score <= setups[k].score
        /\ \A j \in 1..(k - 1) : setups[j].score < setups[k].score

C14_HighestScoreOpened ==
    (result.op = "step") =>
        \A n \in 1..Len(result.open_positions) :
            LET opened == result.open_positions[n]
            IN  C14_FirstOfHighest(call.rows[opened.symbol].det.setups,
                                   opened.setup)

\* the detector returned two setups of equal score, the breakout before
\* the RSI setup, and the position is opened on the breakout
C14_Witness ==
    /\ result.op = "step"
    /\ Len(result.open_positions) = 1
    /\ LET opened == result.open_positions[1]
           setups == call.rows[opened.symbol].det.setups
       IN  /\ Len(setups) = 2
           /\ setups[1].score = setups[2].score
           /\ setups[1].type = "BREAKOUT_SHORT"
           /\ setups[2].type = "RSI_OVERSOLD_LONG"
           /\ opened.setup = setups[1]

(***************************************************************************)
(* C17: at a step whose timestamp is absent from the bar series of a       *)
(* symbol, the symbol is skipped: its open position, if any, is neither    *)
(* closed nor changed, no position is opened on it, no trade is recorded   *)
(* for it and its cooldown marker is unchanged; the step still appends its *)
(* equity point.                                                           *)
(***************************************************************************)
C17_PositionsOf(st, symbol) ==
    {st.open_positions[n] : n \in {m \in 1..Len(st.open_positions) :
                                      st.open_positions[m].symbol = symbol}}

C17_TradesOf(st, symbol) ==
    {k \in 1..Len(st.trades) : st.trades[k].symbol = symbol}

C17_StepTaken ==
    /\ eng.pc = "loop"
    /\ eng.i < Len(eng.all_timestamps)
    /\ eng'.pc = "loop"
    /\ eng'.i = eng.i + 1

C17_AbsentSymbolSkipped ==
    [][C17_StepTaken =>
         LET timestamp == eng.all_timestamps[eng.i + 1]
         IN  /\ \A s \in Symbols :
                   (timestamp \notin data[s].index) =>
                       /\ C17_PositionsOf(eng', s) = C17_PositionsOf(eng, s)
                       /\ C17_TradesOf(eng', s) = C17_TradesOf(eng, s)
                       /\ eng'.symbol_cooldowns[s] = eng.symbol_cooldowns[s]
             /\ Len(eng'.equity_curve) = Len(eng.equity_curve) + 1
             /\ eng'.equity_curve[Len(eng'.equity_curve)].timestamp = timestamp]_vars

\* after the step at the timestamp the first symbol has no bar for: its
\* position of the step before is still open and its cooldown marker is the
\* one of its entry, the other symbol has been entered at the step, and the
\* equity point of the step counts both positions
C17_Witness ==
    /\ eng.pc = "loop"
    /\ eng.i = 2
    /\ eng.all_timestamps[2] \notin data[TRADING_SYMBOLS[1]].index
    /\ cfg.COOLDOWN_ENABLED
    /\ \E p \in C17_PositionsOf(eng, TRADING_SYMBOLS[1]) :
          p.entry_time = eng.all_timestamps[1]
    /\ eng.symbol_cooldowns[TRADING_SYMBOLS[1]] = cfg.COOLDOWN_AFTER_ENTRY_CANDLES
    /\ \E p \in C17_PositionsOf(eng, TRADING_SYMBOLS[2]) :
          p.entry_time = eng.all_timestamps[2]
    /\ Len(eng.equity_curve) = 2
    /\ eng.equity_curve[2].open_positions = 2

(***************************************************************************)
(* C18: calculate_position does not raise for a setup with entry > 0,      *)
(* whatever its stop and target.  The notional is EFFECTIVE_CAPITAL times  *)
(* POSITION_SIZE_PCT; risk_inr and reward_inr are the notional times the   *)
(* directional risk and reward fractions of the entry; rr_ratio is 0 when  *)
(* the risk is zero or negative and reward over risk otherwise.            *)
(***************************************************************************)
C18_Risk ==
    IF call.setup.direction = "LONG"
    THEN call.setup.entry - call.setup.stop
    ELSE call.setup.stop - call.setup.entry

C18_Reward ==
    IF call.setup.direction = "LONG"
    THEN call.setup.target - call.setup.entry
    ELSE call.setup.entry - call.setup.target

C18_SizingTotal ==
    (result.op = "size" /\ call.setup.entry > 0) =>
        LET p == result.position
        IN  /\ ~result.raised
            /\ p.size_inr * 10 = EFFECTIVE_CAPITAL * POSITION_SIZE_TENTHS
            /\ p.risk_inr * call.setup.entry = p.size_inr * C18_Risk * PriceScale
            /\ p.reward_inr * call.setup.entry
                  = p.size_inr * C18_Reward * PriceScale
            /\ p.rr_ratio[2] # 0
            /\ IF C18_Risk <= 0
               THEN p.rr_ratio[1] = 0
               ELSE p.rr_ratio[1] * C18_Risk = C18_Reward * p.rr_ratio[2]

\* a LONG setup with its stop above the entry: the risk is negative, the
\* amount at risk is negative and the ratio is 0
C18_Witness ==
    /\ result.op = "size"
    /\ call.setup.direction = "LONG"
    /\ call.setup.entry = 2
    /\ call.setup.stop = 3
    /\ call.setup.target = 3
    /\ ~result.raised
    /\ result.position.risk_inr < 0
    /\ result.position.reward_inr > 0
    /\ result.position.rr_ratio[1] = 0

(***************************************************************************)
(* C19: in the report of a run with trades, winning_trades counts the      *)
(* trades with pnl_pct > 0 and winning_trades + losing_trades =            *)
(* total_trades; profit_factor is infinite when there are no losers, and   *)
(* the sum of the winning P&L over the absolute sum of the losing P&L when *)
(* that sum is not zero; no division by zero is made.                      *)
(***************************************************************************)
RECURSIVE C19_Sum(_, _)
C19_Sum(k, wins) ==
    IF k > Len(eng.trades) THEN 0
    ELSE (IF (eng.trades[k].pnl_pct > 0) = wins THEN eng.trades[k].pnl_inr ELSE 0)
            + C19_Sum(k + 1, wins)

C19_Winners == {k \in 1..Len(eng.trades) : eng.trades[k].pnl_pct > 0}

C19_ReportCounts ==
    (eng.pc = "done" /\ eng.trades # <<>>) =>
        LET r == eng.report
            losses == C19_Sum(1, FALSE)
        IN  /\ r.returned
            /\ ~r.message
            /\ r.total_trades = Len(eng.trades)
            /\ r.winning_trades = Cardinality(C19_Winners)
            /\ r.winning_trades + r.losing_trades = r.total_trades
            /\ r.profit_factor.den # 0
            /\ (Cardinality(C19_Winners) = Len(eng.trades)) => r.profit_factor.inf
            /\ (losses # 0) =>
                  /\ ~r.profit_factor.inf
                  /\ r.profit_factor.num = C19_Sum(1, TRUE)
                  /\ r.profit_factor.den = 0 - losses

\* a finished run with a winner, a loser and a trade that broke even
C19_Witness ==
    /\ eng.pc = "done"
    /\ eng.report.winning_trades >= 1
    /\ ~eng.report.profit_factor.inf
    /\ eng.report.profit_factor.num > 0
    /\ \E k \in 1..Len(eng.trades) : eng.trades[k].pnl_pct < 0
    /\ \E k \in 1..Len(eng.trades) : eng.trades[k].pnl_pct = 0

(***************************************************************************)
(* C20: for every calendar date of a run, the number of positions opened   *)
(* at timestamps of that date never exceeds MAX_DAILY_TRADES, whatever     *)
(* MAX_POSITIONS and the cooldown settings are.                            *)
(***************************************************************************)
C20_OpenedOn(date) ==
    {e \in Entries(eng) : DateOf(eng.all_timestamps[e.step + 1]) = date}

C20_DailyCap ==
    Running =>
        \A k \in 1..Len(eng.all_timestamps) :
            Cardinality(C20_OpenedOn(DateOf(eng.all_timestamps[k])))
                <= cfg.MAX_DAILY_TRADES

(***************************************************************************)
(* C13: every setup returned by detect_all_setups, from any of the five    *)
(* evaluators, under either enable table and in either exit mode, has      *)
(* stop < entry < target when its direction is LONG and                    *)
(* target < entry < stop when its direction is SHORT.                      *)
(***************************************************************************)
C13_Ordered(setup) ==
    /\ (setup.direction = "LONG") =>
          (setup.stop < setup.entry /\ setup.entry < setup.target)
    /\ (setup.direction = "SHORT") =>
          (setup.target < setup.entry /\ setup.entry < setup.stop)

C13_StopEntryTargetOrdered ==
    (result.op = "evaluate") =>
        \A n \in 1..Len(result.ret.setups) : C13_Ordered(result.ret.setups[n])

(***************************************************************************)
(* C21: at every step boundary and after the forced close the capital is   *)
(* the initial capital plus the sum of pnl_inr over the trades recorded so *)
(* far, and the pnl_inr of each trade is its notional times the            *)
(* directional price change over the entry price.                          *)
(***************************************************************************)
RECURSIVE C21_Realized(_)
C21_Realized(k) ==
    IF k > Len(eng.trades) THEN 0
    ELSE eng.trades[k].pnl_inr + C21_Realized(k + 1)

C21_Move(trade) ==
    IF trade.direction = "LONG"
    THEN trade.exit_price - trade.entry_price
    ELSE trade.entry_price - trade.exit_price

C21_CapitalIsRealizedPnl ==
    Running =>
        /\ eng.capital = CAPITAL_INR * PriceScale + C21_Realized(1)
        /\ \A k \in 1..Len(eng.trades) :
              eng.trades[k].pnl_inr * eng.trades[k].entry_price
                  = eng.trades[k].position_size_inr * C21_Move(eng.trades[k])
                       * PriceScale

\* a finished run with a trade closed in the loop and one closed by the
\* forced close, and a capital that has moved
C21_Witness ==
    /\ eng.pc = "done"
    /\ LoopTrades(eng) # {}
    /\ ForcedTrades(eng) # {}
    /\ eng.capital # CAPITAL_INR * PriceScale
    /\ \E k \in 1..Len(eng.trades) : eng.trades[k].pnl_inr < 0
    /\ \E k \in 1..Len(eng.trades) : eng.trades[k].pnl_inr > 0

(***************************************************************************)
(* C22: every opened position yields exactly one trade record.  In a step  *)
(* of the loop the trades appended are, one to one, the positions that     *)
(* leave open_positions, each trade carrying the symbol, direction, entry  *)
(* time and entry price of its position, and the number of trades and open *)
(* positions together grows by the number of entries of the step; the      *)
(* forced close appends one such trade for each position still open.       *)
(***************************************************************************)
C22_Set(seq) == {seq[n] : n \in 1..Len(seq)}

C22_Closes(trade, pos) ==
    /\ trade.symbol = pos.symbol
    /\ trade.direction = pos.setup.direction
    /\ trade.entry_time = pos.entry_time
    /\ trade.entry_price = pos.entry_price

C22_OneToOne(first, last, positions) ==
    /\ last - first + 1 = Cardinality(positions)
    /\ \A pos \in positions :
          Cardinality({k \in first..last : C22_Closes(eng'.trades[k], pos)}) = 1

C22_EntriesOfStep ==
    LET timestamp == eng.all_timestamps[eng.i + 1]
    IN  eng'.daily_trades
           - (IF eng.current_date # DateOf(timestamp) THEN 0 ELSE eng.daily_trades)

C22_OneTradePerPosition ==
    [][/\ (eng.pc = "loop" /\ eng'.pc \in {"loop", "done"}) =>
            /\ Len(eng'.trades) >= Len(eng.trades)
            /\ SubSeq(eng'.trades, 1, Len(eng.trades)) = eng.trades
       /\ (eng.pc = "loop" /\ eng'.pc = "loop") =>
            /\ C22_OneToOne(Len(eng.trades) + 1, Len(eng'.trades),
                            C22_Set(eng.open_positions)
                               \ C22_Set(eng'.open_positions))
            /\ Len(eng'.trades) + Len(eng'.open_positions)
                  = Len(eng.trades) + Len(eng.open_positions) + C22_EntriesOfStep
       /\ (eng.pc = "loop" /\ eng'.pc = "done") =>
            C22_OneToOne(Len(eng.trades) + 1, Len(eng'.trades),
                         C22_Set(eng.open_positions))]_vars

\* a finished run in which one symbol was entered twice: its first position
\* was closed in the loop, its second by the forced close
C22_Witness ==
    /\ eng.pc = "done"
    /\ \E j \in LoopTrades(eng), k \in ForcedTrades(eng) :
          /\ eng.trades[j].symbol = eng.trades[k].symbol
          /\ eng.trades[j].entry_time < eng.trades[k].entry_time
    /\ Len(eng.trades) >= 3

(***************************************************************************)
(* C23: a symbol never has more than one open position, and the trades of  *)
(* one symbol do not overlap: of two trades on the same symbol the one     *)
(* recorded later was entered no earlier than the other was exited.        *)
(***************************************************************************)
C23_OnePositionPerSymbol ==
    Running =>
        /\ \A s \in Symbols :
              Cardinality({n \in 1..Len(eng.open_positions) :
                              eng.open_positions[n].symbol = s}) <= 1
        /\ \A j, k \in 1..Len(eng.trades) :
              (j < k /\ eng.trades[j].symbol = eng.trades[k].symbol) =>
                  /\ eng.trades[k].entry_time >= eng.trades[j].exit_time
                  /\ StepIndex(eng, eng.trades[k].entry_time)
                        >= StepIndex(eng, eng.trades[j].exit_time)

\* a symbol closed and entered again at the same step, the second position
\* open while the other symbol holds one too
C23_Witness ==
    /\ eng.pc = "loop"
    /\ Len(eng.open_positions) = 2
    /\ \E k \in 1..Len(eng.trades), n \in 1..Len(eng.open_positions) :
          /\ eng.trades[k].symbol = eng.open_positions[n].symbol
          /\ eng.trades[k].exit_time = eng.open_positions[n].entry_time

(***************************************************************************)
(* C24: after a completed run with at least one trade, the capital of the  *)
(* last equity point equals the final capital of the summary, which is the *)
(* capital of the engine when the report is made.                          *)
(***************************************************************************)
C24_LastEquityIsFinalCapital ==
    (eng.pc = "done" /\ eng.report.returned /\ ~eng.report.message) =>
        /\ eng.equity_curve # <<>>
        /\ eng.equity_curve[Len(eng.equity_curve)].capital = eng.capital

(***************************************************************************)
(* C25: the global inter-trade cooldown blocks an entry only relative to   *)
(* an earlier entry of the same run: while no position has been opened in  *)
(* the run, the scan of a step is not blocked by it, the first steps of    *)
(* the run included.                                                       *)
(***************************************************************************)
C25_NoBlockBeforeFirstEntry ==
    (/\ eng.pc = "loop"
     /\ eng.i < Len(eng.all_timestamps)
     /\ cfg.COOLDOWN_ENABLED
     /\ Entries(eng) = {}) =>
        ~GlobalCooldownBlocks(eng)

(***************************************************************************)
(* C26: in the entry scan the history check lets a symbol with a bar at    *)
(* the timestamp through to the detector exactly when the bars of the      *)
(* symbol up to and including the timestamp number at least                *)
(* MIN_CANDLES_FOR_ANALYSIS (55), the threshold of the live scanner.       *)
(***************************************************************************)
C26_BarsUpTo(symbol, timestamp) ==
    data[symbol].older
        + Cardinality({u \in data[symbol].index : u <= timestamp})

C26_HistoryThresholdIsMinimum ==
    (eng.pc = "loop" /\ eng.i < Len(eng.all_timestamps)) =>
        LET timestamp == eng.all_timestamps[eng.i + 1]
        IN  \A s \in Present(timestamp) :
                (C26_BarsUpTo(s, timestamp) >= MIN_CANDLES_FOR_ANALYSIS)
                    <=> ~TooLittleHistory(IndexLoc(s, timestamp))

(***************************************************************************)
(* C27: inside the loop a position is exit-checked for the first time at a *)
(* step strictly later than its entry step, the exits of a step being      *)
(* evaluated before its entries: every trade closed inside the loop has    *)
(* exit_time > entry_time.                                                 *)
(***************************************************************************)
C27_ExitAfterEntry ==
    Running =>
        \A k \in LoopTrades(eng) :
            /\ eng.trades[k].exit_time > eng.trades[k].entry_time
            /\ StepIndex(eng, eng.trades[k].exit_time)
                  > StepIndex(eng, eng.trades[k].entry_time)

\* a position stopped out at the step after its entry
C27_Witness ==
    /\ Running
    /\ \E k \in LoopTrades(eng) :
          /\ eng.trades[k].exit_reason = "STOP"
          /\ StepIndex(eng, eng.trades[k].exit_time)
                = StepIndex(eng, eng.trades[k].entry_time) + 1

(***************************************************************************)
(* C28: get_trend_state and determine_trend_from_15m return a state for    *)
(* every series, and the same one: ranging when the series has fewer than  *)
(* TREND_EMA_SLOW bars or |d| is below the ranging zone; otherwise uptrend *)
(* when d is above the trend threshold, downtrend when d is below minus    *)
(* the trend threshold, and ranging for every other d, the two thresholds  *)
(* themselves included; d = (ema_fast - ema_slow) / ema_slow.              *)
(***************************************************************************)
C28_D == 1000 * (call.ema_fast - call.ema_slow)

C28_InZone ==
    \/ call.n < 55
    \/ /\ C28_D < call.ranging_zone * call.ema_slow
       /\ 0 - C28_D < call.ranging_zone * call.ema_slow

C28_TrendStateCases ==
    (result.op = "trend") =>
        /\ result.state \in {"uptrend", "downtrend", "ranging"}
        /\ result.state_15m = result.state
        /\ C28_InZone => result.state = "ranging"
        /\ (~C28_InZone /\ C28_D > call.threshold * call.ema_slow)
              => result.state = "uptrend"
        /\ (~C28_InZone /\ 0 - C28_D > call.threshold * call.ema_slow)
              => result.state = "downtrend"
        /\ (/\ ~C28_InZone
            /\ C28_D <= call.threshold * call.ema_slow
            /\ 0 - C28_D <= call.threshold * call.ema_slow)
              => result.state = "ranging"

\* a difference exactly at the trend threshold, outside the ranging zone:
\* ranging
C28_Witness ==
    /\ result.op = "trend"
    /\ call.n >= 55
    /\ call.ranging_zone < call.threshold
    /\ C28_D = call.threshold * call.ema_slow
    /\ result.state = "ranging"
    /\ result.state_15m = "ranging"

\* C29: in every cycle of the live bot, blocked or not, each open position
\* is evaluated for exit: a position whose price is known and is at or past
\* its target or stop, or which is held longer than the maximum, and whose
\* exit order goes through, is closed by that cycle.
C29_ExitDue(pos) ==
    /\ call.prices[pos.symbol] # NoPrice
    /\ should_exit(pos, call.prices[pos.symbol], call.now) # "HOLD"
    /\ call.closes[pos.symbol] = "closed"

C29_BlockedCycleManagesPositions ==
    result.op = "cycle"
        => \A k \in 1..Len(result.held) :
              C29_ExitDue(result.held[k]) => result.held[k].id \in result.closed

\* C30: after any sequence of cycles the position manager holds at most
\* MAX_POSITIONS positions and at most one per symbol, a cycle opens at most
\* one position, and a position leaves the manager only in a cycle in which
\* its exit order went through and its trade record was logged.
C30_LoggedInCycle(pos) ==
    \E k \in (Len(bot.trades) - result.logged + 1)..Len(bot.trades) :
        /\ bot.trades[k].id = pos.id
        /\ bot.trades[k].symbol = pos.symbol
        /\ bot.trades[k].entry_time = pos.entry_time

C30_PositionsBounded ==
    /\ count(bot) <= cfg.MAX_POSITIONS
    /\ \A j \in 1..Len(bot.positions), k \in 1..Len(bot.positions) :
          bot.positions[j].symbol = bot.positions[k].symbol => j = k
    /\ result.op = "cycle"
          => /\ Cardinality(result.opened) <= 1
             /\ \A k \in 1..Len(result.held) :
                   result.held[k].id \in result.closed
                       => /\ call.closes[result.held[k].symbol] = "closed"
                          /\ C30_LoggedInCycle(result.held[k])

C30_Witness ==
    /\ result.op = "cycle"
    /\ count(bot) = cfg.MAX_POSITIONS
    /\ result.closed # {}
    /\ Cardinality(result.opened) = 1
    /\ Len(call.setups) = 2
    /\ \E k \in 1..Len(bot.trades) : bot.trades[k].exit_reason = "STOP"

====
